---- MODULE Spec2Model ----
(***************************************************************************)
(* A model of the V4L2 RAW10 streaming system: the producer v4l2_usb.c     *)
(* (capture_loop, usb_sender_thread, send_frame, signal_handler), the      *)
(* cross-platform receiver v4l2_usb_pc_core.c (recv_full, receive_loop)    *)
(* and its SBGGR10 unpacker (unpack_sbggr10_scalar, unpack_worker_thread,  *)
(* unpack_sbggr10_image).                                                  *)
(*                                                                         *)
(* TLC integers are 32 bits wide.  Values of the program that need more    *)
(* (the 40-bit word of the unpacker, the u32 and u64 header fields) are    *)
(* kept as bit vectors or as 16-bit limbs; byte counts stay integers.      *)
(***************************************************************************)
EXTENDS Integers, Sequences, FiniteSets, TLC

VARIABLES
    \* ---- producer (v4l2_usb.c): globals ---------------------------------
    running,          \* volatile int running
    client_connected, \* volatile int client_connected
    client_fd,        \* int client_fd: -1 or the id of an accepted connection
    server_shut,      \* whether shutdown() was called on server_fd
    frame_mutex,      \* holder of frame_mutex: "none", "capture", "sender", "signal"
    current_frame,    \* struct frame_data current_frame
    \* ---- producer: sockets, driver and clock ----------------------------
    open_conns,       \* accepted connections whose descriptor is still open
    shut_conns,       \* connections on which shutdown() was called
    next_conn,        \* number of connections accepted so far
    drv_queued,       \* buffers queued to the driver (VIDIOC_QBUF), oldest first
    drv_done,         \* buffers the driver has filled and not yet handed back
    bufmem,           \* which frame of the driver each mmap'ed capture buffer holds
    fills,            \* number of frames the driver has produced
    clock,            \* CLOCK_MONOTONIC, counted in readings of get_time_ns()
    \* ---- producer: the threads ------------------------------------------
    cap,              \* main thread: capture_loop locals, then main's epilogue
    snd,              \* usb_sender_thread: pc and whether its wait was signalled
    sf,               \* the frame of the running send_frame call
    sig,              \* signal_handler: pc and the thread it interrupts
    \* ---- the TCP stream of the current connection ------------------------
    wire,             \* the bytes the producer wrote to the connection, in order
    tx_log,           \* history: the frames send_frame was called for on it
    handoff,          \* history of current_frame: publishes, overwrites, sends
    \* ---- receiver: unpack_sbggr10_image and its workers -----------------
    raw_data,        \* the input bytes: a repeating byte pattern
    raw_size,        \* the length of the input in bytes
    output_pixels,   \* the output array: the set of its written pieces
    num_pixels,      \* capacity of the output array in samples
    cpu_cores,       \* what get_cpu_cores() returns
    avx2,            \* whether the build defines __AVX2__
    up,              \* locals of unpack_sbggr10_image: pc, num_threads, chunk_size, i, ret
    tasks,           \* struct unpack_task tasks[8]
    threads,         \* state of each worker thread: "none", "running", "finished", "joined"
    \* ---- receiver (v4l2_usb_pc_core.c): receive_loop --------------------
    rx_running,      \* volatile int running of the receiver process
    config,          \* struct client_config
    rx,              \* receive_loop and recv_full locals
    frame_buffer,    \* the bytes stored in the payload buffer so far
    buffer_size,     \* size_t buffer_size: capacity of frame_buffer
    stats,           \* struct stats
    files,           \* the raw files written by save_frame
    unpacked_files,  \* the files of unpacked samples written by save_frame
    rx_pos           \* number of bytes of the stream the receiver has consumed

unpackVars == <<raw_data, raw_size, output_pixels, num_pixels, cpu_cores, avx2,
                up, tasks, threads>>

prodVars == <<running, client_connected, client_fd, server_shut, frame_mutex,
              current_frame, open_conns, shut_conns, next_conn, drv_queued, drv_done,
              bufmem, fills, clock, cap, snd, sf, sig, wire, tx_log, handoff>>

rxVars == <<rx_running, config, rx, frame_buffer, buffer_size, stats, files,
           unpacked_files, rx_pos>>

vars == <<prodVars, unpackVars, rxVars>>

\* ------------------------------------------------------------------------
\* Small helpers
\* ------------------------------------------------------------------------
Min(a, b) == IF a < b THEN a ELSE b
Max(a, b) == IF a > b THEN a ELSE b

RECURSIVE Pow2(_)
Pow2(n) == IF n = 0 THEN 1 ELSE 2 * Pow2(n - 1)

\* ------------------------------------------------------------------------
\* 64-bit words as bit vectors (bit 0 is the least significant)
\* ------------------------------------------------------------------------
WordBits == 0..63

\* (uint64_t)b for a byte b
U64OfByte(b) == [k \in WordBits |-> IF k < 8 THEN (b \div Pow2(k)) % 2 ELSE 0]
\* a 64-bit constant below 2^16
U64OfSmall(n) == [k \in WordBits |-> IF k < 16 THEN (n \div Pow2(k)) % 2 ELSE 0]
Shl(v, s) == [k \in WordBits |-> IF k >= s THEN v[k - s] ELSE 0]
Shr(v, s) == [k \in WordBits |-> IF k + s <= 63 THEN v[k + s] ELSE 0]
BitOr(a, b) == [k \in WordBits |-> IF a[k] = 1 \/ b[k] = 1 THEN 1 ELSE 0]
BitAnd(a, b) == [k \in WordBits |-> IF a[k] = 1 /\ b[k] = 1 THEN 1 ELSE 0]

RECURSIVE LowBitsValue(_, _)
LowBitsValue(v, n) == IF n = 0 THEN 0 ELSE LowBitsValue(v, n - 1) + v[n - 1] * Pow2(n - 1)
\* (uint16_t)v
CastU16(v) == LowBitsValue(v, 16)

\* ------------------------------------------------------------------------
\* Unsigned 32- and 64-bit values as 16-bit limbs, most significant first
\* ------------------------------------------------------------------------
Limb == 65536

U32(hi, lo) == <<hi, lo>>
U32OfInt(n) == <<(n \div Limb) % Limb, n % Limb>>
\* the value of a U32 below 2^31
IntOfU32(u) == u[1] * Limb + u[2]
U32IsZero(u) == u[1] = 0 /\ u[2] = 0
\* unsigned a > n, for an integer 0 <= n < 2^31
U32GtInt(u, n) == u[1] > n \div Limb \/ (u[1] = n \div Limb /\ u[2] > n % Limb)
\* a + b modulo 2^32
U32Add(a, b) ==
    LET lo == a[2] + b[2]
        hi == a[1] + b[1] + lo \div Limb
    IN  <<hi % Limb, lo % Limb>>
\* unsigned a % n for a small positive n
U32Mod(u, n) == (((u[1] % n) * (Limb % n)) + u[2]) % n

U64OfInt(n) == <<0, 0, (n \div Limb) % Limb, n % Limb>>

\* little-endian bytes of a limb, a u32, a u64
LimbBytes(l) == <<l % 256, l \div 256>>
BytesBigEndianU32(u) == <<u[1] \div 256, u[1] % 256, u[2] \div 256, u[2] % 256>>
BytesOfU32(u) == LimbBytes(u[2]) \o LimbBytes(u[1])
BytesOfU64(t) == LimbBytes(t[4]) \o LimbBytes(t[3]) \o LimbBytes(t[2]) \o LimbBytes(t[1])
LimbOfBytes(b, at) == b[at] + 256 * b[at + 1]
U32OfBytes(b, at) == <<LimbOfBytes(b, at + 2), LimbOfBytes(b, at)>>
U64OfBytes(b, at) ==
    <<LimbOfBytes(b, at + 6), LimbOfBytes(b, at + 4), LimbOfBytes(b, at + 2), LimbOfBytes(b, at)>>

\* ------------------------------------------------------------------------
\* struct frame_header (packed; both ends are little-endian machines)
\* ------------------------------------------------------------------------
MAGIC == U32(57005, 48879)                \* 0xDEADBEEF
PIXFMT_SBGGR10 == U32(12337, 18242)       \* 0x30314742, V4L2_PIX_FMT_SBGGR10
WIDTH == 1920
HEIGHT == 1080
CHUNK_SIZE == 65536
BUFFER_COUNT == 3
\* sizeof(struct frame_header): six u32, one u64, two reserved u32
SIZEOF_HEADER == 6 * 4 + 8 + 2 * 4

\* the object representation of a header, as send() reads it
HeaderBytes(h) ==
    BytesOfU32(h.magic) \o BytesOfU32(h.frame_id) \o BytesOfU32(h.width) \o
    BytesOfU32(h.height) \o BytesOfU32(h.pixfmt) \o BytesOfU32(h.size) \o
    BytesOfU64(h.timestamp) \o BytesOfU32(h.reserved[1]) \o BytesOfU32(h.reserved[2])

\* the header a receiver finds in the bytes recv() stored into its struct
HeaderOfBytes(b) ==
    [magic |-> U32OfBytes(b, 1), frame_id |-> U32OfBytes(b, 5), width |-> U32OfBytes(b, 9),
     height |-> U32OfBytes(b, 13), pixfmt |-> U32OfBytes(b, 17), size |-> U32OfBytes(b, 21),
     timestamp |-> U64OfBytes(b, 25),
     reserved |-> <<U32OfBytes(b, 33), U32OfBytes(b, 37)>>]

\* ------------------------------------------------------------------------
\* Byte strings: a sequence of segments, each either explicit bytes or a
\* stretch [off, off + len) of the n-th frame the capture driver produced
\* ------------------------------------------------------------------------
UNINIT == -2     \* the bytes of memory that was never written
Seg(bytes) == [bytes |-> bytes, fill |-> -1, off |-> 0, len |-> Len(bytes)]
FillSeg(n, off, len) == [bytes |-> <<>>, fill |-> n, off |-> off, len |-> len]
\* byte i of the driver's n-th frame
FillByte(n, i) == (16 * n + i) % 256

SegTake(s, n) ==
    IF s.fill = -1 THEN Seg(SubSeq(s.bytes, 1, n)) ELSE FillSeg(s.fill, s.off, n)
SegDrop(s, n) ==
    IF s.fill = -1 THEN Seg(SubSeq(s.bytes, n + 1, s.len))
    ELSE FillSeg(s.fill, s.off + n, s.len - n)
SegBytes(s) ==
    IF s.fill = -1 THEN s.bytes ELSE [i \in 1..s.len |-> FillByte(s.fill, s.off + i - 1)]

RECURSIVE StreamLen(_)
StreamLen(segs) == IF segs = <<>> THEN 0 ELSE Head(segs).len + StreamLen(Tail(segs))

RECURSIVE Take(_, _)
Take(segs, n) ==
    IF n <= 0 \/ segs = <<>> THEN <<>>
    ELSE IF Head(segs).len <= n THEN <<Head(segs)>> \o Take(Tail(segs), n - Head(segs).len)
    ELSE <<SegTake(Head(segs), n)>>

RECURSIVE Drop(_, _)
Drop(segs, n) ==
    IF n <= 0 \/ segs = <<>> THEN segs
    ELSE IF Head(segs).len <= n THEN Drop(Tail(segs), n - Head(segs).len)
    ELSE <<SegDrop(Head(segs), n)>> \o Tail(segs)

\* concatenation, in canonical form: adjacent stretches of one frame and
\* adjacent explicit bytes are one segment
Join(a, b) ==
    IF a = <<>> THEN b
    ELSE IF b = <<>> THEN a
    ELSE LET x == a[Len(a)]
             y == Head(b)
         IN  IF x.fill = -1 /\ y.fill = -1
             THEN SubSeq(a, 1, Len(a) - 1) \o <<Seg(x.bytes \o y.bytes)>> \o Tail(b)
             ELSE IF x.fill = y.fill /\ x.fill # -1 /\ x.off + x.len = y.off
             THEN SubSeq(a, 1, Len(a) - 1) \o <<FillSeg(x.fill, x.off, x.len + y.len)>> \o Tail(b)
             ELSE a \o b

Slice(segs, at, n) == Take(Drop(segs, at), n)
\* memcpy of new into the string at offset at
Overwrite(segs, at, new) ==
    Join(Join(Take(segs, at), new), Drop(segs, at + StreamLen(new)))

RECURSIVE Bytes(_)
Bytes(segs) == IF segs = <<>> THEN <<>> ELSE SegBytes(Head(segs)) \o Bytes(Tail(segs))

\* ------------------------------------------------------------------------
\* Bounds of the producer
\* ------------------------------------------------------------------------
MaxFills == 2        \* frames the driver produces in one run
MaxConns == 2        \* clients that connect in one run
FrameLen == 2        \* bytesused of a captured frame

NULL == -1
Buffers == 0..(BUFFER_COUNT - 1)

\* the bytes at [off, off + len) of a capture buffer holding frame n
BufferBytes(n, off, len) == <<FillSeg(n, off, len)>>

\* a thread runs unless signal_handler is running on its stack
SigActive == {"set_running", "shutdown", "lock", "broadcast"}
Runs(t) == ~(sig.pc \in SigActive /\ sig.on = t)

\* pthread_cond_signal / pthread_cond_broadcast on frame_ready: the sender
\* is the only thread that ever waits
SignalLost(s) == s
Signalled(s) == IF s.pc = "cond_wait" THEN [s EXCEPT !.woken = TRUE] ELSE s

\* ------------------------------------------------------------------------
\* The capture driver
\* ------------------------------------------------------------------------
\* the driver fills the oldest queued buffer and makes it ready for DQBUF
DriverFill ==
    /\ cap.pc # "exited"
    /\ drv_queued # <<>>
    /\ fills < MaxFills
    /\ bufmem' = [bufmem EXCEPT ![Head(drv_queued)] = fills + 1]
    /\ drv_done' = Append(drv_done, Head(drv_queued))
    /\ drv_queued' = Tail(drv_queued)
    /\ fills' = fills + 1
    /\ UNCHANGED <<running, client_connected, client_fd, server_shut, frame_mutex,
                   current_frame, open_conns, shut_conns, next_conn, clock, cap, snd, sf,
                   sig, wire, tx_log, handoff>>
    /\ UNCHANGED <<unpackVars, rxVars>>

\* ------------------------------------------------------------------------
\* capture_loop (run by the main thread)
\* ------------------------------------------------------------------------
\* buf_index, bytes_used and timestamp are locals of the loop body
\* (retry tells why the passes since the last dequeued frame were cut short:
\* "select" for a timeout or EINTR, "dqbuf" for a failed dequeue)
EndIteration(c) == [c EXCEPT !.pc = "loop", !.buf_index = NULL, !.bytes_used = 0, !.timestamp = 0,
                             !.retry = "none"]

\* while (running); after the loop return 0
CapLoop ==
    /\ cap.pc = "loop" /\ Runs("capture")
    /\ cap' = IF running = 1 THEN [cap EXCEPT !.pc = "select"]
                              ELSE [cap EXCEPT !.pc = "join", !.ret = 0]
    /\ UNCHANGED <<running, client_connected, client_fd, server_shut, frame_mutex,
                   current_frame, open_conns, shut_conns, next_conn, drv_queued, drv_done,
                   bufmem, fills, clock, snd, sf, sig, wire, tx_log, handoff>>
    /\ UNCHANGED <<unpackVars, rxVars>>

\* select() reports the device readable: a frame is ready (or no buffer is
\* queued at all, which poll reports as an error condition on the fd)
CapSelectReady ==
    /\ cap.pc = "select" /\ Runs("capture")
    /\ drv_done # <<>> \/ drv_queued = <<>>
    /\ cap' = [cap EXCEPT !.pc = "dqbuf"]
    /\ UNCHANGED <<running, client_connected, client_fd, server_shut, frame_mutex,
                   current_frame, open_conns, shut_conns, next_conn, drv_queued, drv_done,
                   bufmem, fills, clock, snd, sf, sig, wire, tx_log, handoff>>
    /\ UNCHANGED <<unpackVars, rxVars>>

\* select() returns 0 after a second without a frame, or -1 with EINTR
\* after signal_handler ran on this thread: continue
CapSelectRetry ==
    /\ cap.pc = "select" /\ Runs("capture")
    /\ drv_done = <<>> \/ (sig.pc = "done" /\ sig.on = "capture")
    /\ cap' = [cap EXCEPT !.pc = "loop", !.retry = "select"]
    /\ UNCHANGED <<running, client_connected, client_fd, server_shut, frame_mutex,
                   current_frame, open_conns, shut_conns, next_conn, drv_queued, drv_done,
                   bufmem, fills, clock, snd, sf, sig, wire, tx_log, handoff>>
    /\ UNCHANGED <<unpackVars, rxVars>>

\* select() returns -1 with another errno (the device is gone): break,
\* which leaves the loop for the same return 0
CapSelectError ==
    /\ cap.pc = "select" /\ Runs("capture")
    /\ cap' = [cap EXCEPT !.pc = "join", !.broke = TRUE, !.ret = 0]
    /\ UNCHANGED <<running, client_connected, client_fd, server_shut, frame_mutex,
                   current_frame, open_conns, shut_conns, next_conn, drv_queued, drv_done,
                   bufmem, fills, clock, snd, sf, sig, wire, tx_log, handoff>>
    /\ UNCHANGED <<unpackVars, rxVars>>

\* dequeue_buffer_mp succeeds; timestamp = get_time_ns()
CapDequeue ==
    /\ cap.pc = "dqbuf" /\ Runs("capture")
    /\ drv_done # <<>>
    /\ drv_done' = Tail(drv_done)
    /\ clock' = clock + 1
    /\ cap' = [cap EXCEPT !.pc = "check", !.buf_index = Head(drv_done),
                          !.bytes_used = FrameLen,
                          !.timestamp = clock + 1]
    /\ UNCHANGED <<running, client_connected, client_fd, server_shut, frame_mutex,
                   current_frame, open_conns, shut_conns, next_conn, drv_queued,
                   bufmem, fills, snd, sf, sig, wire, tx_log, handoff>>
    /\ UNCHANGED <<unpackVars, rxVars>>

CapDequeueFailBreaks ==
    /\ cap.pc = "dqbuf" /\ Runs("capture")
    /\ cap' = [cap EXCEPT !.pc = "join", !.retry = "dqbuf", !.ret = 0]
    /\ UNCHANGED <<running, client_connected, client_fd, server_shut, frame_mutex,
                   current_frame, open_conns, shut_conns, next_conn, drv_queued, drv_done,
                   bufmem, fills, clock, snd, sf, sig, wire, tx_log, handoff>>
    /\ UNCHANGED <<unpackVars, rxVars>>

\* dequeue_buffer_mp fails (EAGAIN with nothing ready, or an I/O error,
\* followed by sleep(1)): continue
CapDequeueFail ==
    /\ cap.pc = "dqbuf" /\ Runs("capture")
    /\ cap' = [cap EXCEPT !.pc = "loop", !.retry = "dqbuf"]
    /\ UNCHANGED <<running, client_connected, client_fd, server_shut, frame_mutex,
                   current_frame, open_conns, shut_conns, next_conn, drv_queued, drv_done,
                   bufmem, fills, clock, snd, sf, sig, wire, tx_log, handoff>>
    /\ UNCHANGED <<unpackVars, rxVars>>

\* if (client_connected)
CapCheckClient ==
    /\ cap.pc = "check" /\ Runs("capture")
    /\ cap' = [cap EXCEPT !.pc = IF client_connected = 1 THEN "lock" ELSE "qbuf"]
    /\ UNCHANGED <<running, client_connected, client_fd, server_shut, frame_mutex,
                   current_frame, open_conns, shut_conns, next_conn, drv_queued, drv_done,
                   bufmem, fills, clock, snd, sf, sig, wire, tx_log, handoff>>
    /\ UNCHANGED <<unpackVars, rxVars>>

\* the publish section entered without waiting for frame_mutex
CapLockNoMutex ==
    /\ cap.pc = "lock" /\ Runs("capture")
    /\ cap' = [cap EXCEPT !.pc = "publish"]
    /\ UNCHANGED <<running, client_connected, client_fd, server_shut, frame_mutex,
                   current_frame, open_conns, shut_conns, next_conn, drv_queued, drv_done,
                   bufmem, fills, clock, snd, sf, sig, wire, tx_log, handoff>>
    /\ UNCHANGED <<unpackVars, rxVars>>

\* pthread_mutex_lock(&frame_mutex)
CapLock ==
    /\ cap.pc = "lock" /\ Runs("capture")
    /\ frame_mutex = "none"
    /\ frame_mutex' = "capture"
    /\ cap' = [cap EXCEPT !.pc = "publish"]
    /\ UNCHANGED <<running, client_connected, client_fd, server_shut,
                   current_frame, open_conns, shut_conns, next_conn, drv_queued, drv_done,
                   bufmem, fills, clock, snd, sf, sig, wire, tx_log, handoff>>
    /\ UNCHANGED <<unpackVars, rxVars>>

\* what capture_loop stores into current_frame
PublishedKeepFirst(old, c) ==
    IF old.data # NULL THEN old
    ELSE [data |-> c.buf_index, size |-> c.bytes_used, frame_id |-> c.frame_counter,
          timestamp |-> c.timestamp]
Published(old, c) ==
    [data |-> c.buf_index, size |-> c.bytes_used, frame_id |-> c.frame_counter,
     timestamp |-> c.timestamp]

\* current_frame.data = buffers[buf_index].start[0]; current_frame.size = bytes_used
CapPublishData ==
    /\ cap.pc = "publish" /\ Runs("capture")
    /\ current_frame' = [current_frame EXCEPT
                            !.data = Published(current_frame, cap).data,
                            !.size = Published(current_frame, cap).size]
    /\ cap' = [cap EXCEPT !.pc = "publish_id"]
    /\ handoff' = [handoff EXCEPT
                      !.dropped = IF current_frame.data # NULL
                                  THEN handoff.dropped \cup {current_frame.timestamp}
                                  ELSE handoff.dropped]
    /\ UNCHANGED <<running, client_connected, client_fd, server_shut, frame_mutex,
                   open_conns, shut_conns, next_conn, drv_queued, drv_done,
                   bufmem, fills, clock, snd, sf, sig, wire, tx_log>>
    /\ UNCHANGED <<unpackVars, rxVars>>

\* current_frame.frame_id = frame_counter; current_frame.timestamp = timestamp;
\* pthread_cond_signal, pthread_mutex_unlock
\* (handoff.pub keeps the descriptor as this publish leaves it, and
\* handoff.pub_conn the number of clients accepted before it)
CapPublish ==
    /\ cap.pc = "publish_id" /\ Runs("capture")
    /\ current_frame' = [current_frame EXCEPT
                            !.frame_id = Published(current_frame, cap).frame_id,
                            !.timestamp = Published(current_frame, cap).timestamp]
    /\ snd' = Signalled(snd)
    /\ frame_mutex' = "none"
    /\ cap' = [cap EXCEPT !.pc = "qbuf"]
    /\ handoff' = [handoff EXCEPT !.last = cap.timestamp, !.pub = current_frame',
                                   !.pub_conn = next_conn]
    /\ UNCHANGED <<running, client_connected, client_fd, server_shut,
                   open_conns, shut_conns, next_conn, drv_queued, drv_done,
                   bufmem, fills, clock, sf, sig, wire, tx_log>>
    /\ UNCHANGED <<unpackVars, rxVars>>

\* queue_buffer_mp succeeds; frame_counter++
CapQueue ==
    /\ cap.pc = "qbuf" /\ Runs("capture")
    /\ drv_queued' = Append(drv_queued, cap.buf_index)
    /\ cap' = [EndIteration(cap) EXCEPT !.frame_counter = cap.frame_counter + 1]
    /\ UNCHANGED <<running, client_connected, client_fd, server_shut, frame_mutex,
                   current_frame, open_conns, shut_conns, next_conn, drv_done,
                   bufmem, fills, clock, snd, sf, sig, wire, tx_log, handoff>>
    /\ UNCHANGED <<unpackVars, rxVars>>

\* queue_buffer_mp fails: perror, sleep(1), continue
CapQueueFail ==
    /\ cap.pc = "qbuf" /\ Runs("capture")
    /\ cap' = EndIteration(cap)
    /\ UNCHANGED <<running, client_connected, client_fd, server_shut, frame_mutex,
                   current_frame, open_conns, shut_conns, next_conn, drv_queued, drv_done,
                   bufmem, fills, clock, snd, sf, sig, wire, tx_log, handoff>>
    /\ UNCHANGED <<unpackVars, rxVars>>

\* main: pthread_join(usb_thread, NULL)
MainJoin ==
    /\ cap.pc = "join" /\ Runs("capture")
    /\ snd.pc = "done"
    /\ cap' = [cap EXCEPT !.pc = "cleanup"]
    /\ UNCHANGED <<running, client_connected, client_fd, server_shut, frame_mutex,
                   current_frame, open_conns, shut_conns, next_conn, drv_queued, drv_done,
                   bufmem, fills, clock, snd, sf, sig, wire, tx_log, handoff>>
    /\ UNCHANGED <<unpackVars, rxVars>>

\* main's cleanup: VIDIOC_STREAMOFF takes every buffer out of the driver's
\* queues, then the buffers are unmapped and the descriptors closed
MainCleanup ==
    /\ cap.pc = "cleanup" /\ Runs("capture")
    /\ drv_queued' = <<>>
    /\ drv_done' = <<>>
    /\ bufmem' = [b \in Buffers |-> UNINIT]
    /\ cap' = [cap EXCEPT !.pc = "exited"]
    /\ UNCHANGED <<running, client_connected, client_fd, server_shut, frame_mutex,
                   current_frame, open_conns, shut_conns, next_conn,
                   fills, clock, snd, sf, sig, wire, tx_log, handoff>>
    /\ UNCHANGED <<unpackVars, rxVars>>

\* ------------------------------------------------------------------------
\* usb_sender_thread
\* ------------------------------------------------------------------------
NoCall == [fd |-> -1, data |-> NULL, size |-> 0, frame_id |-> 0, timestamp |-> 0,
           sent |-> 0, ret |-> 0]

SndLoopEndsWhenDropped ==
    /\ snd.pc = "loop" /\ Runs("sender")
    /\ snd' = [snd EXCEPT !.pc = IF running = 0 \/ (client_connected = 0 /\ next_conn > 0)
                                 THEN "exit"
                                 ELSE IF client_connected = 0 THEN "accept" ELSE "lock"]
    /\ UNCHANGED <<running, client_connected, client_fd, server_shut, frame_mutex,
                   current_frame, open_conns, shut_conns, next_conn, drv_queued, drv_done,
                   bufmem, fills, clock, cap, sf, sig, wire, tx_log, handoff>>
    /\ UNCHANGED <<unpackVars, rxVars>>

SndLoopAlwaysAccept ==
    /\ snd.pc = "loop" /\ Runs("sender")
    /\ snd' = [snd EXCEPT !.pc = IF running = 0 THEN "exit" ELSE "accept"]
    /\ UNCHANGED <<running, client_connected, client_fd, server_shut, frame_mutex,
                   current_frame, open_conns, shut_conns, next_conn, drv_queued, drv_done,
                   bufmem, fills, clock, cap, sf, sig, wire, tx_log, handoff>>
    /\ UNCHANGED <<unpackVars, rxVars>>

\* while (running) ... if (!client_connected)
SndLoop ==
    /\ snd.pc = "loop" /\ Runs("sender")
    /\ snd' = [snd EXCEPT !.pc = IF running = 0 THEN "exit"
                                 ELSE IF client_connected = 0 THEN "accept" ELSE "lock"]
    /\ UNCHANGED <<running, client_connected, client_fd, server_shut, frame_mutex,
                   current_frame, open_conns, shut_conns, next_conn, drv_queued, drv_done,
                   bufmem, fills, clock, cap, sf, sig, wire, tx_log, handoff>>
    /\ UNCHANGED <<unpackVars, rxVars>>

\* accept() returns a new connection; client_connected = 1
SndAccept ==
    /\ snd.pc = "accept" /\ Runs("sender")
    /\ ~server_shut
    /\ next_conn < MaxConns
    /\ next_conn' = next_conn + 1
    /\ client_fd' = next_conn + 1
    /\ open_conns' = open_conns \cup {next_conn + 1}
    /\ client_connected' = 1
    /\ wire' = <<>>
    /\ tx_log' = <<>>
    /\ snd' = [snd EXCEPT !.pc = "lock"]
    /\ UNCHANGED <<running, server_shut, frame_mutex, current_frame, shut_conns,
                   drv_queued, drv_done, bufmem, fills, clock, cap, sf, sig, handoff>>
    /\ UNCHANGED <<unpackVars, rxVars>>

\* accept() fails (the listening socket was shut down, or a transient
\* error): client_fd = -1, continue
SndAcceptFail ==
    /\ snd.pc = "accept" /\ Runs("sender")
    /\ client_fd' = -1
    /\ snd' = [snd EXCEPT !.pc = "loop"]
    /\ UNCHANGED <<running, client_connected, server_shut, frame_mutex,
                   current_frame, open_conns, shut_conns, next_conn, drv_queued, drv_done,
                   bufmem, fills, clock, cap, sf, sig, wire, tx_log, handoff>>
    /\ UNCHANGED <<unpackVars, rxVars>>

\* pthread_mutex_lock(&frame_mutex)
SndLock ==
    /\ snd.pc = "lock" /\ Runs("sender")
    /\ frame_mutex = "none"
    /\ frame_mutex' = "sender"
    /\ snd' = [snd EXCEPT !.pc = "wait_check"]
    /\ UNCHANGED <<running, client_connected, client_fd, server_shut,
                   current_frame, open_conns, shut_conns, next_conn, drv_queued, drv_done,
                   bufmem, fills, clock, cap, sf, sig, wire, tx_log, handoff>>
    /\ UNCHANGED <<unpackVars, rxVars>>

\* while (current_frame.data == NULL && running) pthread_cond_wait(...):
\* the wait releases the mutex and blocks
SndWaitCheck ==
    /\ snd.pc = "wait_check" /\ Runs("sender")
    /\ IF current_frame.data = NULL /\ running = 1
       THEN /\ frame_mutex' = "none"
            /\ snd' = [pc |-> "cond_wait", woken |-> FALSE]
       ELSE /\ frame_mutex' = frame_mutex
            /\ snd' = [snd EXCEPT !.pc = "send_check"]
    /\ UNCHANGED <<running, client_connected, client_fd, server_shut,
                   current_frame, open_conns, shut_conns, next_conn, drv_queued, drv_done,
                   bufmem, fills, clock, cap, sf, sig, wire, tx_log, handoff>>
    /\ UNCHANGED <<unpackVars, rxVars>>

\* pthread_cond_wait returns: signalled, and the mutex re-acquired
SndWake ==
    /\ snd.pc = "cond_wait" /\ Runs("sender")
    /\ snd.woken
    /\ frame_mutex = "none"
    /\ frame_mutex' = "sender"
    /\ snd' = [pc |-> "wait_check", woken |-> FALSE]
    /\ UNCHANGED <<running, client_connected, client_fd, server_shut,
                   current_frame, open_conns, shut_conns, next_conn, drv_queued, drv_done,
                   bufmem, fills, clock, cap, sf, sig, wire, tx_log, handoff>>
    /\ UNCHANGED <<unpackVars, rxVars>>

\* if (current_frame.data && running) send_frame(client_fd, current_frame...)
SndSendCheck ==
    /\ snd.pc = "send_check" /\ Runs("sender")
    /\ IF current_frame.data # NULL /\ running = 1
       THEN /\ sf' = [fd |-> client_fd, data |-> current_frame.data,
                      size |-> current_frame.size, frame_id |-> current_frame.frame_id,
                      timestamp |-> current_frame.timestamp, sent |-> 0, ret |-> 0]
            /\ snd' = [snd EXCEPT !.pc = "sf_header"]
            /\ handoff' = [handoff EXCEPT !.sent = handoff.sent \cup {current_frame.timestamp}]
       ELSE /\ sf' = sf
            /\ snd' = [snd EXCEPT !.pc = "unlock"]
            /\ handoff' = handoff
    /\ UNCHANGED <<running, client_connected, client_fd, server_shut, frame_mutex,
                   current_frame, open_conns, shut_conns, next_conn, drv_queued, drv_done,
                   bufmem, fills, clock, cap, sig, wire, tx_log>>
    /\ UNCHANGED <<unpackVars, rxVars>>

SndAfterSendKeepClient ==
    /\ snd.pc = "sf_ret" /\ Runs("sender")
    /\ current_frame' = [current_frame EXCEPT !.data = NULL]
    /\ sf' = NoCall
    /\ snd' = [snd EXCEPT !.pc = "unlock"]
    /\ UNCHANGED <<running, client_connected, client_fd, server_shut, frame_mutex, open_conns,
                   shut_conns, next_conn, drv_queued, drv_done,
                   bufmem, fills, clock, cap, sig, wire, tx_log, handoff>>
    /\ UNCHANGED <<unpackVars, rxVars>>

\* send_frame has returned: on failure close(client_fd), client_connected = 0;
\* in both cases current_frame.data = NULL
SndAfterSend ==
    /\ snd.pc = "sf_ret" /\ Runs("sender")
    /\ IF sf.ret < 0
       THEN /\ open_conns' = open_conns \ {client_fd}
            /\ client_connected' = 0
       ELSE /\ open_conns' = open_conns
            /\ client_connected' = client_connected
    /\ current_frame' = [current_frame EXCEPT !.data = NULL]
    /\ sf' = NoCall
    /\ snd' = [snd EXCEPT !.pc = "unlock"]
    /\ UNCHANGED <<running, client_fd, server_shut, frame_mutex,
                   shut_conns, next_conn, drv_queued, drv_done,
                   bufmem, fills, clock, cap, sig, wire, tx_log, handoff>>
    /\ UNCHANGED <<unpackVars, rxVars>>

\* pthread_mutex_unlock(&frame_mutex)
SndUnlock ==
    /\ snd.pc = "unlock" /\ Runs("sender")
    /\ frame_mutex' = "none"
    /\ snd' = [snd EXCEPT !.pc = "loop"]
    /\ UNCHANGED <<running, client_connected, client_fd, server_shut,
                   current_frame, open_conns, shut_conns, next_conn, drv_queued, drv_done,
                   bufmem, fills, clock, cap, sf, sig, wire, tx_log, handoff>>
    /\ UNCHANGED <<unpackVars, rxVars>>

\* after the loop: if (client_connected) close(client_fd); return NULL
SndExit ==
    /\ snd.pc = "exit" /\ Runs("sender")
    /\ open_conns' = IF client_connected = 1 THEN open_conns \ {client_fd} ELSE open_conns
    /\ snd' = [snd EXCEPT !.pc = "done"]
    /\ UNCHANGED <<running, client_connected, client_fd, server_shut, frame_mutex,
                   current_frame, shut_conns, next_conn, drv_queued, drv_done,
                   bufmem, fills, clock, cap, sf, sig, wire, tx_log, handoff>>
    /\ UNCHANGED <<unpackVars, rxVars>>

\* ------------------------------------------------------------------------
\* send_frame
\* ------------------------------------------------------------------------
\* struct frame_header header = {...}
HeaderOfCall(c) ==
    [magic |-> MAGIC, frame_id |-> U32OfInt(c.frame_id), width |-> U32OfInt(WIDTH),
     height |-> U32OfInt(HEIGHT), pixfmt |-> PIXFMT_SBGGR10, size |-> U32OfInt(c.size),
     timestamp |-> U64OfInt(c.timestamp), reserved |-> <<U32OfInt(0), U32OfInt(0)>>]

\* a send() on descriptor fd can transfer bytes
CanSend(fd) == fd \in open_conns /\ fd \notin shut_conns

\* send(header) == sizeof(header): the whole header is on the stream
\* (handoff.last_id keeps the frame_id of the last header written by the process)
SfSendHeader ==
    /\ snd.pc = "sf_header" /\ Runs("sender")
    /\ CanSend(sf.fd)
    /\ wire' = Join(wire, <<Seg(HeaderBytes(HeaderOfCall(sf)))>>)
    /\ tx_log' = Append(tx_log, [header |-> HeaderOfCall(sf), payload |-> <<>>])
    /\ handoff' = [handoff EXCEPT !.last_id = sf.frame_id]
    /\ snd' = [snd EXCEPT !.pc = "sf_loop"]
    /\ UNCHANGED <<running, client_connected, client_fd, server_shut, frame_mutex,
                   current_frame, open_conns, shut_conns, next_conn, drv_queued, drv_done,
                   bufmem, fills, clock, cap, sf, sig>>
    /\ UNCHANGED <<unpackVars, rxVars>>

\* send(header) returns -1, or a short count n: return -1
SfSendHeaderFail ==
    /\ snd.pc = "sf_header" /\ Runs("sender")
    /\ \E n \in {0, 1, SIZEOF_HEADER - 1} :
          /\ n > 0 => CanSend(sf.fd)
          /\ wire' = Join(wire, Take(<<Seg(HeaderBytes(HeaderOfCall(sf)))>>, n))
    /\ sf' = [sf EXCEPT !.ret = -1]
    /\ snd' = [snd EXCEPT !.pc = "sf_ret"]
    /\ UNCHANGED <<running, client_connected, client_fd, server_shut, frame_mutex,
                   current_frame, open_conns, shut_conns, next_conn, drv_queued, drv_done,
                   bufmem, fills, clock, cap, sig, tx_log, handoff>>
    /\ UNCHANGED <<unpackVars, rxVars>>

\* while (sent < size && running); after the loop return 0
SfLoop ==
    /\ snd.pc = "sf_loop" /\ Runs("sender")
    /\ IF sf.sent < sf.size /\ running = 1
       THEN /\ snd' = [snd EXCEPT !.pc = "sf_chunk"]
            /\ sf' = sf
       ELSE /\ snd' = [snd EXCEPT !.pc = "sf_ret"]
            /\ sf' = [sf EXCEPT !.ret = 0]
    /\ UNCHANGED <<running, client_connected, client_fd, server_shut, frame_mutex,
                   current_frame, open_conns, shut_conns, next_conn, drv_queued, drv_done,
                   bufmem, fills, clock, cap, sig, wire, tx_log, handoff>>
    /\ UNCHANGED <<unpackVars, rxVars>>

ToSend(c) == IF c.size - c.sent > CHUNK_SIZE THEN CHUNK_SIZE ELSE c.size - c.sent
\* the counts a send() or recv() of up to n bytes may return
ShortCounts(n) ==
    IF n <= SIZEOF_HEADER THEN {k \in {n \div 2, n - 1, n} : k >= 1} ELSE {n - 1, n}
SendResults(n) == ShortCounts(n)

\* send(ptr + sent, to_send) transfers result > 0 bytes, read from the
\* capture buffer as it is now; sent += result
SfSendChunk ==
    /\ snd.pc = "sf_chunk" /\ Runs("sender")
    /\ CanSend(sf.fd)
    /\ \E result \in SendResults(ToSend(sf)) :
          /\ wire' = Join(wire, BufferBytes(bufmem[sf.data], sf.sent, result))
          /\ tx_log' = [tx_log EXCEPT ![Len(tx_log)].payload =
                            Join(@, BufferBytes(bufmem[sf.data], sf.sent, result))]
          /\ sf' = [sf EXCEPT !.sent = sf.sent + result]
    /\ snd' = [snd EXCEPT !.pc = "sf_loop"]
    /\ UNCHANGED <<running, client_connected, client_fd, server_shut, frame_mutex,
                   current_frame, open_conns, shut_conns, next_conn, drv_queued, drv_done,
                   bufmem, fills, clock, cap, sig, handoff>>
    /\ UNCHANGED <<unpackVars, rxVars>>

\* send(chunk) returns result <= 0: return -1
SfSendChunkFail ==
    /\ snd.pc = "sf_chunk" /\ Runs("sender")
    /\ sf' = [sf EXCEPT !.ret = -1]
    /\ snd' = [snd EXCEPT !.pc = "sf_ret"]
    /\ UNCHANGED <<running, client_connected, client_fd, server_shut, frame_mutex,
                   current_frame, open_conns, shut_conns, next_conn, drv_queued, drv_done,
                   bufmem, fills, clock, cap, sig, wire, tx_log, handoff>>
    /\ UNCHANGED <<unpackVars, rxVars>>

\* ------------------------------------------------------------------------
\* signal_handler (SIGINT or SIGTERM, delivered once, on either thread)
\* ------------------------------------------------------------------------
SigDeliver ==
    /\ sig.pc = "idle"
    /\ cap.pc # "exited"
    /\ \E t \in {"capture", "sender"} :
          /\ t = "sender" => snd.pc # "done"
          /\ sig' = [pc |-> "set_running", on |-> t]
    /\ UNCHANGED <<running, client_connected, client_fd, server_shut, frame_mutex,
                   current_frame, open_conns, shut_conns, next_conn, drv_queued, drv_done,
                   bufmem, fills, clock, cap, snd, sf, wire, tx_log, handoff>>
    /\ UNCHANGED <<unpackVars, rxVars>>

\* running = 0
SigSetRunning ==
    /\ sig.pc = "set_running"
    /\ running' = 0
    /\ sig' = [sig EXCEPT !.pc = "shutdown"]
    /\ UNCHANGED <<client_connected, client_fd, server_shut, frame_mutex,
                   current_frame, open_conns, shut_conns, next_conn, drv_queued, drv_done,
                   bufmem, fills, clock, cap, snd, sf, wire, tx_log, handoff>>
    /\ UNCHANGED <<unpackVars, rxVars>>

\* shutdown(server_fd, SHUT_RDWR); if (client_fd >= 0) shutdown(client_fd, SHUT_RDWR)
SigShutdown ==
    /\ sig.pc = "shutdown"
    /\ server_shut' = TRUE
    /\ shut_conns' = IF client_fd >= 0 THEN shut_conns \cup {client_fd} ELSE shut_conns
    /\ sig' = [sig EXCEPT !.pc = "lock"]
    /\ UNCHANGED <<running, client_connected, client_fd, frame_mutex,
                   current_frame, open_conns, next_conn, drv_queued, drv_done,
                   bufmem, fills, clock, cap, snd, sf, wire, tx_log, handoff>>
    /\ UNCHANGED <<unpackVars, rxVars>>

\* pthread_mutex_lock(&frame_mutex), on the interrupted thread's stack
SigLock ==
    /\ sig.pc = "lock"
    /\ frame_mutex = "none"
    /\ frame_mutex' = "signal"
    /\ sig' = [sig EXCEPT !.pc = "broadcast"]
    /\ UNCHANGED <<running, client_connected, client_fd, server_shut,
                   current_frame, open_conns, shut_conns, next_conn, drv_queued, drv_done,
                   bufmem, fills, clock, cap, snd, sf, wire, tx_log, handoff>>
    /\ UNCHANGED <<unpackVars, rxVars>>

\* pthread_cond_broadcast(&frame_ready); pthread_mutex_unlock(&frame_mutex)
SigBroadcast ==
    /\ sig.pc = "broadcast"
    /\ snd' = Signalled(snd)
    /\ frame_mutex' = "none"
    /\ sig' = [sig EXCEPT !.pc = "done"]
    /\ UNCHANGED <<running, client_connected, client_fd, server_shut,
                   current_frame, open_conns, shut_conns, next_conn, drv_queued, drv_done,
                   bufmem, fills, clock, cap, sf, wire, tx_log, handoff>>
    /\ UNCHANGED <<unpackVars, rxVars>>

\* ------------------------------------------------------------------------
\* The producer process
\* ------------------------------------------------------------------------
\* the producer's state when its threads start, with descriptor fd for the
\* client, the connections conns open, the bytes w written and the sender at at
ProdAt(fd, conns, w, at) ==
    /\ running = 1
    /\ client_connected = 0
    /\ client_fd = fd
    /\ server_shut = FALSE
    /\ frame_mutex = "none"
    /\ current_frame = [data |-> NULL, size |-> 0, frame_id |-> 0, timestamp |-> 0]
    /\ open_conns = conns
    /\ shut_conns = {}
    /\ next_conn = 0
    /\ drv_queued = [i \in 1..BUFFER_COUNT |-> i - 1]
    /\ drv_done = <<>>
    /\ bufmem = [b \in Buffers |-> 0]
    /\ fills = 0
    /\ clock = 0
    /\ cap = [pc |-> "loop", buf_index |-> NULL, bytes_used |-> 0, frame_counter |-> 0,
              timestamp |-> 0, broke |-> FALSE, ret |-> NULL, retry |-> "none"]
    /\ snd = [pc |-> at, woken |-> FALSE]
    /\ sf = NoCall
    /\ sig = [pc |-> "idle", on |-> "capture"]
    /\ wire = w
    /\ tx_log = <<>>
    /\ handoff = [last |-> 0, dropped |-> {}, sent |-> {}, last_id |-> -1,
                  pub |-> [data |-> NULL, size |-> 0, frame_id |-> 0, timestamp |-> 0],
                  pub_conn |-> 0]

ProdStart == ProdAt(-1, {}, <<>>, "loop")

ProdNext ==
    \/ DriverFill
    \/ CapLoop \/ CapSelectReady \/ CapSelectRetry \/ CapSelectError
    \/ CapDequeue \/ CapDequeueFail \/ CapCheckClient \/ CapLock \/ CapPublishData
    \/ CapPublish
    \/ CapQueue \/ CapQueueFail \/ MainJoin \/ MainCleanup
    \/ SndLoop \/ SndAccept \/ SndAcceptFail \/ SndLock \/ SndWaitCheck \/ SndWake
    \/ SndSendCheck \/ SndAfterSend \/ SndUnlock \/ SndExit
    \/ SfSendHeader \/ SfSendHeaderFail \/ SfLoop \/ SfSendChunk \/ SfSendChunkFail
    \/ SigDeliver \/ SigSetRunning \/ SigShutdown \/ SigLock \/ SigBroadcast

\* ------------------------------------------------------------------------
\* Program constants of the receiver
\* ------------------------------------------------------------------------
MIN_CHUNK_SIZE == 1024 * 1024
MAX_UNPACK_THREADS == 8
GROUP_BYTES == 5
GROUP_PIXELS == 4

\* ------------------------------------------------------------------------
\* Bounds of the unpacker's inputs
\* ------------------------------------------------------------------------
MaxGroups == 2          \* small inputs have up to MaxGroups 5-byte groups (+ 1 stray byte)
MaxCores == 9           \* get_cpu_cores() returns -1 .. MaxCores
ExtraGroups == 1        \* large inputs: 0 .. ExtraGroups groups above the threshold

\* ------------------------------------------------------------------------
\* The input buffer.  raw_data = [base |-> <<b0..b4>>, step |-> s] stands
\* for the byte array whose byte i is base[i % 5] + s * (i / 5) (mod 256),
\* so that large buffers need no explicit array.
\* ------------------------------------------------------------------------
RawByte(i) == (raw_data.base[(i % 5) + 1] + raw_data.step * (i \div 5)) % 256
RawGroup(p) == <<RawByte(p), RawByte(p + 1), RawByte(p + 2), RawByte(p + 3), RawByte(p + 4)>>

\* ------------------------------------------------------------------------
\* unpack_sbggr10_scalar
\* ------------------------------------------------------------------------
ScalarShiftBad(i) == 8 * i
ScalarShift(i) == 10 * i

Combined(raw_bytes) ==
    BitOr(Shl(U64OfByte(raw_bytes[5]), 32),
    BitOr(Shl(U64OfByte(raw_bytes[4]), 24),
    BitOr(Shl(U64OfByte(raw_bytes[3]), 16),
    BitOr(Shl(U64OfByte(raw_bytes[2]), 8),
          U64OfByte(raw_bytes[1])))))

unpack_sbggr10_scalar(raw_bytes) ==
    LET combined == Combined(raw_bytes)
    IN  [i \in 1..4 |-> CastU16(BitAnd(Shr(combined, ScalarShift(i - 1)), U64OfSmall(1023)))]

\* ------------------------------------------------------------------------
\* The output array, kept as the set of its written pieces.  A piece
\* [lo, hi, src, lane] says: samples lo .. hi-1 are written, sample lo being
\* lane `lane` of the 5-byte group at raw offset src and the following
\* samples following on in the input (4 samples per 5 bytes).  The pieces of
\* an array are disjoint; samples in no piece were never written.
\* ------------------------------------------------------------------------
Run(lo, n, src) == [lo |-> lo, hi |-> lo + GROUP_PIXELS * n, src |-> src, lane |-> 0]

\* piece o from sample q on (o.lo <= q < o.hi)
PieceFrom(o, q) ==
    LET t == o.lane + (q - o.lo)
    IN  [lo |-> q, hi |-> o.hi, src |-> o.src + GROUP_BYTES * (t \div GROUP_PIXELS),
         lane |-> t % GROUP_PIXELS]

\* the array a after the samples of piece w are stored into it
Store(a, w) ==
    {[o EXCEPT !.hi = Min(o.hi, w.lo)] : o \in {x \in a : x.lo < w.lo}} \cup
    {PieceFrom(o, Max(o.lo, w.hi)) : o \in {x \in a : x.hi > w.hi}} \cup
    {w}

RECURSIVE StoreAll(_, _)
StoreAll(a, ws) == IF ws = <<>> THEN a ELSE StoreAll(Store(a, Head(ws)), Tail(ws))

Covering(a, p) == {o \in a : o.lo <= p /\ p < o.hi}
Written(a, p) == Covering(a, p) # {}

\* where sample p of array a comes from: <<raw offset of its group, lane>>
SourceOf(a, p) ==
    IF ~Written(a, p) THEN <<-1, -1>>
    ELSE LET o == PieceFrom(CHOOSE x \in Covering(a, p) : TRUE, p)
         IN  <<o.src, o.lane>>

\* the value of sample p of array a (defined where it was written)
PixelAt(a, p) ==
    LET s == SourceOf(a, p) IN unpack_sbggr10_scalar(RawGroup(s[1]))[s[2] + 1]

\* the points where the content of a or b can change: the ends of their pieces
Breakpoints(a, b) == {o.lo : o \in a \cup b} \cup {o.hi : o \in a \cup b} \cup {0}

\* a and b hold the same samples at every index (and are unwritten at the same indices)
SameArray(a, b) ==
    \A p \in Breakpoints(a, b) :
        /\ SourceOf(a, p) = SourceOf(b, p)
        /\ Written(a, p) => PixelAt(a, p) = PixelAt(b, p)

\* the number of samples of a that were written
RECURSIVE SumLengths(_)
SumLengths(a) ==
    IF a = {} THEN 0
    ELSE LET o == CHOOSE x \in a : TRUE IN (o.hi - o.lo) + SumLengths(a \ {o})
WrittenCount(a) == SumLengths(a)

\* ------------------------------------------------------------------------
\* unpack_worker_thread: the runs one call writes, in order
\* ------------------------------------------------------------------------
WorkerRuns(task) ==
    LET raw_pos0 == task.start_offset
        pixel_pos0 == (task.start_offset \div 5) * 4
        avx2_blocks == IF avx2 /\ task.end_offset >= raw_pos0
                       THEN (task.end_offset - raw_pos0) \div 40 ELSE 0
        raw_pos1 == raw_pos0 + avx2_blocks * 40
        pixel_pos1 == pixel_pos0 + avx2_blocks * 32
        scalar_groups == IF task.end_offset >= raw_pos1
                         THEN (task.end_offset - raw_pos1) \div 5 ELSE 0
    IN  (IF avx2_blocks > 0 THEN <<Run(pixel_pos0, avx2_blocks * 8, raw_pos0)>> ELSE <<>>) \o
        (IF scalar_groups > 0 THEN <<Run(pixel_pos1, scalar_groups, raw_pos1)>> ELSE <<>>)

\* ------------------------------------------------------------------------
\* The receiver: recv_full and receive_loop
\* ------------------------------------------------------------------------
MAX_FRAME_SIZE == 50 * 1024 * 1024

NoHeader == HeaderOfBytes([i \in 1..SIZEOF_HEADER |-> 0])
RxAtLoop == [pc |-> "loop", stage |-> "header", received |-> 0, want |-> 0,
             hdr_buf |-> <<>>, header |-> NoHeader, end_reason |-> "none",
             frames |-> <<>>, split |-> FALSE]

\* header.magic != 0xDEADBEEF does not hold
MagicOkAny(h) == TRUE
MagicOk(h) == h.magic = MAGIC
\* header.size == 0 || header.size > 50 * 1024 * 1024 does not hold
SizeOkBelow(h) == ~(U32IsZero(h.size) \/ U32GtInt(h.size, MAX_FRAME_SIZE - 1))
SizeOk(h) == ~(U32IsZero(h.size) \/ U32GtInt(h.size, MAX_FRAME_SIZE))

\* bytes the kernel holds for the receiver; the peer's end is closed
Avail == StreamLen(wire) - rx_pos
PeerClosed == client_fd \notin open_conns \/ client_fd \in shut_conns
RecvResults(n) == ShortCounts(n)

Ended(r, why) == [r EXCEPT !.pc = "done", !.end_reason = why]

\* signal_handler: running = 0
RxSignalHandler ==
    /\ rx_running = 1
    /\ rx.pc \notin {"idle", "returned", "exited"}
    /\ rx_running' = 0
    /\ UNCHANGED <<config, rx, frame_buffer, buffer_size, stats, files, unpacked_files, rx_pos>>
    /\ UNCHANGED <<prodVars, unpackVars>>

\* while (running) { struct frame_header header; recv_full(sock, &header, ...)
RxLoop ==
    /\ rx.pc = "loop"
    /\ rx' = IF rx_running = 1
             THEN [rx EXCEPT !.pc = "recv_loop", !.stage = "header", !.received = 0,
                             !.want = SIZEOF_HEADER, !.hdr_buf = <<>>, !.header = NoHeader,
                             !.split = FALSE]
             ELSE Ended(rx, "stopped")
    /\ UNCHANGED <<rx_running, config, frame_buffer, buffer_size, stats, files, unpacked_files, rx_pos>>
    /\ UNCHANGED <<prodVars, unpackVars>>

\* recv_full: return received == size ? 0 : -1
RecvFullRetFails(received, size) == -1
RecvFullRet(received, size) == IF received = size THEN 0 ELSE -1

\* if (recv_full(sock, frame_buffer, header.size) < 0) break
PayloadLostNever(ret) == FALSE
PayloadLost(ret) == ret < 0

\* what receive_loop does with the value recv_full returned
\* (split tells whether, in the recv_full call in progress, some recv
\* returned fewer bytes than it was asked for)
AfterRecvFull(r, ret) ==
    IF r.stage = "header"
    THEN IF ret < 0 THEN Ended(r, "recv")
         ELSE [r EXCEPT !.pc = "validate", !.header = HeaderOfBytes(r.hdr_buf),
                        !.split = FALSE]
    ELSE IF PayloadLost(ret) THEN Ended(r, "recv")
         ELSE [r EXCEPT !.pc = "process", !.split = FALSE,
                        !.frames = Append(@, [header |-> r.header,
                                              payload |-> Take(frame_buffer, r.want),
                                              saved |-> "pending", ret |-> 0])]

\* recv_full: while (received < size && running) ...; return received == size ? 0 : -1
RxRecvLoop ==
    /\ rx.pc = "recv_loop"
    /\ rx' = IF rx.received < rx.want /\ rx_running = 1
             THEN [rx EXCEPT !.pc = "recv"]
             ELSE AfterRecvFull(rx, RecvFullRet(rx.received, rx.want))
    /\ UNCHANGED <<rx_running, config, frame_buffer, buffer_size, stats, files, unpacked_files, rx_pos>>
    /\ UNCHANGED <<prodVars, unpackVars>>

\* recv() stores result > 0 bytes at ptr + received
RxRecv ==
    /\ rx.pc = "recv"
    /\ Avail > 0
    /\ \E result \in RecvResults(Min(rx.want - rx.received, Avail)) :
          /\ rx_pos' = rx_pos + result
          /\ IF rx.stage = "header"
             THEN /\ rx' = [rx EXCEPT !.pc = "recv_loop", !.received = @ + result,
                                      !.hdr_buf = @ \o Bytes(Slice(wire, rx_pos, result)),
                                      !.split = @ \/ result < rx.want - rx.received]
                  /\ frame_buffer' = frame_buffer
             ELSE /\ rx' = [rx EXCEPT !.pc = "recv_loop", !.received = @ + result,
                                      !.split = @ \/ result < rx.want - rx.received]
                  /\ frame_buffer' = Overwrite(frame_buffer, rx.received,
                                               Slice(wire, rx_pos, result))
    /\ UNCHANGED <<rx_running, config, buffer_size, stats, files, unpacked_files>>
    /\ UNCHANGED <<prodVars, unpackVars>>

\* recv() fails only once the peer has closed and nothing is left to read
\* (no receive timeout, no interruption by a signal)
RxRecvFailOnlyClosed ==
    /\ rx.pc = "recv"
    /\ Avail = 0 /\ PeerClosed
    /\ rx' = AfterRecvFull(rx, -1)
    /\ UNCHANGED <<rx_running, config, frame_buffer, buffer_size, stats, files, unpacked_files, rx_pos>>
    /\ UNCHANGED <<prodVars, unpackVars>>

\* recv() returns 0 (the peer closed and nothing is left) or -1: return -1, break
RxRecvFail ==
    /\ rx.pc = "recv"
    /\ \E result \in {0, -1} :
          /\ result = 0 => (Avail = 0 /\ PeerClosed)
          /\ rx' = AfterRecvFull(rx, -1)
    /\ UNCHANGED <<rx_running, config, frame_buffer, buffer_size, stats, files, unpacked_files, rx_pos>>
    /\ UNCHANGED <<prodVars, unpackVars>>

\* if (header.magic != 0xDEADBEEF) break
RxBadMagic ==
    /\ rx.pc = "validate"
    /\ ~MagicOk(rx.header)
    /\ rx' = Ended(rx, "bad_magic")
    /\ UNCHANGED <<rx_running, config, frame_buffer, buffer_size, stats, files, unpacked_files, rx_pos>>
    /\ UNCHANGED <<prodVars, unpackVars>>

\* if (header.size == 0 || header.size > 50 * 1024 * 1024) break
RxBadSize ==
    /\ rx.pc = "validate"
    /\ MagicOk(rx.header)
    /\ ~SizeOk(rx.header)
    /\ rx' = Ended(rx, "bad_size")
    /\ UNCHANGED <<rx_running, config, frame_buffer, buffer_size, stats, files, unpacked_files, rx_pos>>
    /\ UNCHANGED <<prodVars, unpackVars>>

\* header.size > buffer_size: free(frame_buffer); malloc returns NULL; break
RxAllocFail ==
    /\ rx.pc = "validate"
    /\ MagicOk(rx.header)
    /\ SizeOk(rx.header)
    /\ IntOfU32(rx.header.size) > buffer_size
    /\ frame_buffer' = <<>>
    /\ rx' = Ended(rx, "alloc")
    /\ UNCHANGED <<rx_running, config, buffer_size, stats, files, unpacked_files, rx_pos>>
    /\ UNCHANGED <<prodVars, unpackVars>>

RxStartPayloadExact ==
    /\ rx.pc = "validate"
    /\ MagicOk(rx.header)
    /\ SizeOk(rx.header)
    /\ LET size == IntOfU32(rx.header.size)
       IN  /\ frame_buffer' = <<FillSeg(UNINIT, 0, size)>>
           /\ buffer_size' = size
           /\ rx' = [rx EXCEPT !.pc = "recv_loop", !.stage = "payload",
                               !.received = 0, !.want = size, !.split = FALSE]
    /\ UNCHANGED <<rx_running, config, stats, files, unpacked_files, rx_pos>>
    /\ UNCHANGED <<prodVars, unpackVars>>

\* the buffer is large enough, or is replaced by a new one of header.size
\* bytes; recv_full(sock, frame_buffer, header.size)
RxStartPayload ==
    /\ rx.pc = "validate"
    /\ MagicOk(rx.header)
    /\ SizeOk(rx.header)
    /\ LET size == IntOfU32(rx.header.size)
       IN  /\ IF size > buffer_size
              THEN /\ frame_buffer' = <<FillSeg(UNINIT, 0, size)>>
                   /\ buffer_size' = size
              ELSE /\ frame_buffer' = frame_buffer
                   /\ buffer_size' = buffer_size
           /\ rx' = [rx EXCEPT !.pc = "recv_loop", !.stage = "payload",
                               !.received = 0, !.want = size, !.split = FALSE]
    /\ UNCHANGED <<rx_running, config, stats, files, unpacked_files, rx_pos>>
    /\ UNCHANGED <<prodVars, unpackVars>>

\* the raw file save_frame writes
RawFile(h, data) ==
    [frame_id |-> h.frame_id, width |-> h.width, height |-> h.height,
     ext |-> IF h.pixfmt = PIXFMT_SBGGR10 THEN "BG10" ELSE "raw", data |-> data]

\* the sibling file: the num_pixels = size / 5 * 4 samples that
\* unpack_sbggr10_image stores for the input data (on one core;
\* cpu_cores is 1 wherever receive_loop runs in this model)
UnpackedFile(h, data) ==
    [frame_id |-> h.frame_id, width |-> h.width, height |-> h.height,
     ext |-> "unpacked.raw", raw |-> data,
     pixels |-> StoreAll({}, WorkerRuns([start_offset |-> 0,
                                         end_offset |-> IntOfU32(h.size),
                                         thread_id |-> 0]))]

\* if (enable_conversion && pixfmt == 0x30314742 && size % 5 == 0)
Converts(h, enable_conversion) ==
    /\ enable_conversion = 1
    /\ h.pixfmt = PIXFMT_SBGGR10
    /\ IntOfU32(h.size) % 5 = 0

\* save_frame(data, size, frame_id, width, height, pixfmt, enable_conversion,
\* output_dir): the value it may return, with the files it has then written.
\* fopen of the raw file can fail (return -1 at once); in the conversion
\* block malloc or fopen of the sibling file can fail (ret = -1 after the
\* raw file was written).  saved tells whether the raw file was opened.
save_frame(data, h, enable_conversion) ==
    {[ret |-> -1, saved |-> "open_failed", raw |-> {}, unpacked |-> {}]} \cup
    (IF Converts(h, enable_conversion)
     THEN {[ret |-> 0, saved |-> "saved", raw |-> {RawFile(h, data)},
            unpacked |-> {UnpackedFile(h, data)}],
           [ret |-> -1, saved |-> "saved", raw |-> {RawFile(h, data)}, unpacked |-> {}]}
     ELSE {[ret |-> 0, saved |-> "saved", raw |-> {RawFile(h, data)}, unpacked |-> {}]})

\* the frame is not due, or enable_save is 0 (process_frame_memory_only
\* writes no file)
NotSaved == [ret |-> 0, saved |-> "skipped", raw |-> {}, unpacked |-> {}]

update_stats_bytes_only(st, frame_size) ==
    [frames_received |-> st.frames_received,
     bytes_received |-> U32Add(st.bytes_received, frame_size)]

\* update_stats(frame_size)
update_stats(st, frame_size) ==
    [frames_received |-> st.frames_received + 1,
     bytes_received |-> U32Add(st.bytes_received, frame_size)]

\* if (header.frame_id % config->save_interval == 0)
SaveDueAlways(h, c) == TRUE
SaveDue(h, c) == U32Mod(h.frame_id, c.save_interval) = 0

\* print_frame_info; if the frame is due, save_frame (when enable_save is
\* set) or process_frame_memory_only; update_stats.
\* frames[..].saved records what became of the frame: "saved" if save_frame
\* opened its raw file, "open_failed" if fopen failed, "skipped" otherwise;
\* frames[..].ret is the value save_frame returned.
RxProcess ==
    /\ rx.pc = "process"
    /\ LET save == SaveDue(rx.header, config) /\ config.enable_save = 1
       IN  \E o \in (IF save THEN save_frame(Take(frame_buffer, rx.want), rx.header,
                                              config.enable_conversion)
                              ELSE {NotSaved}) :
              /\ files' = files \cup o.raw
              /\ unpacked_files' = unpacked_files \cup o.unpacked
              /\ rx' = [rx EXCEPT !.pc = "loop",
                                  !.frames[Len(rx.frames)].saved = o.saved,
                                  !.frames[Len(rx.frames)].ret = o.ret]
    /\ stats' = update_stats(stats, rx.header.size)
    /\ UNCHANGED <<rx_running, config, frame_buffer, buffer_size, rx_pos>>
    /\ UNCHANGED <<prodVars, unpackVars>>

\* after the loop: free(frame_buffer); return 0
RxReturn ==
    /\ rx.pc = "done"
    /\ frame_buffer' = <<>>
    /\ rx' = [rx EXCEPT !.pc = "returned"]
    /\ UNCHANGED <<rx_running, config, buffer_size, stats, files, unpacked_files, rx_pos>>
    /\ UNCHANGED <<prodVars, unpackVars>>

\* main, once receive_loop has returned: close_socket(sock_fd), the cleanups,
\* print_stats, return result.  There is no second connect_to_server.
RxMainExit ==
    /\ rx.pc = "returned"
    /\ rx' = [rx EXCEPT !.pc = "exited"]
    /\ UNCHANGED <<rx_running, config, frame_buffer, buffer_size, stats, files, unpacked_files, rx_pos>>
    /\ UNCHANGED <<prodVars, unpackVars>>

RxNext ==
    \/ RxSignalHandler \/ RxLoop \/ RxRecvLoop \/ RxRecv \/ RxRecvFail
    \/ RxBadMagic \/ RxBadSize \/ RxAllocFail \/ RxStartPayload \/ RxProcess \/ RxReturn
    \/ RxMainExit

RxStart ==
    /\ rx_running = 1
    /\ rx = RxAtLoop
    /\ frame_buffer = <<>>
    /\ buffer_size = 0
    /\ stats = [frames_received |-> 0, bytes_received |-> U32OfInt(0)]
    /\ files = {}
    /\ unpacked_files = {}
    /\ rx_pos = 0

\* the receiver is not running
RxIdle ==
    /\ rx_running = 1
    /\ config = [enable_save |-> 0, enable_conversion |-> 0, save_interval |-> 1]
    /\ rx = [RxAtLoop EXCEPT !.pc = "idle"]
    /\ frame_buffer = <<>>
    /\ buffer_size = 0
    /\ stats = [frames_received |-> 0, bytes_received |-> U32OfInt(0)]
    /\ files = {}
    /\ unpacked_files = {}
    /\ rx_pos = 0

\* ------------------------------------------------------------------------
\* unpack_sbggr10_image
\* ------------------------------------------------------------------------
ThreadIds == 0..(MAX_UNPACK_THREADS - 1)
NoTask == [start_offset |-> 0, end_offset |-> 0, thread_id |-> -1]

ExpectedPixels(size) == (size \div 5) * 4

\* int num_threads = (raw_size < MIN_CHUNK_SIZE) ? 1 : cpu_cores; capped at 8
NumThreads(size, cores) ==
    LET n == IF size < MIN_CHUNK_SIZE THEN 1 ELSE cores
    IN  IF n > MAX_UNPACK_THREADS THEN MAX_UNPACK_THREADS ELSE n

\* size_t chunk_size = raw_size / num_threads, rounded down to a multiple of 5.
\* num_threads is an int converted to size_t: a negative one becomes a value
\* above 2^63, larger than any raw_size, and the quotient is 0.  (The
\* division by num_threads = 0 is taken by UnpackDivZero.)
ChunkSizeUnaligned(size, n) == IF n < 0 THEN 0 ELSE size \div n
ChunkSize(size, n) == IF n < 0 THEN 0 ELSE ((size \div n) \div 5) * 5

TaskOf(i, n, chunk, size) ==
    [start_offset |-> i * chunk,
     end_offset |-> IF i = n - 1 THEN size ELSE (i + 1) * chunk,
     thread_id |-> i]

\* the early returns of lines 409-423: nothing is written
UnpackReject ==
    /\ up.pc = "call"
    /\ \/ raw_size = 0
       \/ raw_size % 5 # 0
       \/ num_pixels < ExpectedPixels(raw_size)
    /\ up' = [up EXCEPT !.pc = "ret", !.ret = -1]
    /\ UNCHANGED <<raw_data, raw_size, output_pixels, num_pixels, cpu_cores, avx2, tasks, threads>>
    /\ UNCHANGED <<prodVars, rxVars>>

UnpackAcceptedAnyLength ==
    /\ up.pc = "call"
    /\ raw_size # 0
    /\ num_pixels >= ExpectedPixels(raw_size)

UnpackAccepted ==
    /\ up.pc = "call"
    /\ raw_size # 0
    /\ raw_size % 5 = 0
    /\ num_pixels >= ExpectedPixels(raw_size)

\* the single-threaded path: unpack_worker_thread is called in place
UnpackSingle ==
    /\ UnpackAccepted
    /\ NumThreads(raw_size, cpu_cores) = 1
    /\ output_pixels' = StoreAll(output_pixels,
           WorkerRuns([start_offset |-> 0, end_offset |-> raw_size, thread_id |-> 0]))
    /\ up' = [up EXCEPT !.pc = "ret", !.ret = 0, !.num_threads = 1]
    /\ UNCHANGED <<raw_data, raw_size, num_pixels, cpu_cores, avx2, tasks, threads>>
    /\ UNCHANGED <<prodVars, rxVars>>

\* raw_size / num_threads with num_threads = 0: an integer division by zero,
\* which the x86 and ARM builds turn into a trap (SIGFPE)
UnpackDivZero ==
    /\ UnpackAccepted
    /\ NumThreads(raw_size, cpu_cores) = 0
    /\ up' = [up EXCEPT !.pc = "crashed", !.num_threads = 0]
    /\ UNCHANGED <<raw_data, raw_size, output_pixels, num_pixels, cpu_cores, avx2, tasks, threads>>
    /\ UNCHANGED <<prodVars, rxVars>>

UnpackStartMulti ==
    /\ UnpackAccepted
    /\ NumThreads(raw_size, cpu_cores) \notin {0, 1}
    /\ up' = [up EXCEPT !.pc = "create", !.i = 0,
                        !.num_threads = NumThreads(raw_size, cpu_cores),
                        !.chunk_size = ChunkSize(raw_size, NumThreads(raw_size, cpu_cores))]
    /\ UNCHANGED <<raw_data, raw_size, output_pixels, num_pixels, cpu_cores, avx2, tasks, threads>>
    /\ UNCHANGED <<prodVars, rxVars>>

\* one iteration of the creation loop, pthread_create succeeding
UnpackCreate ==
    /\ up.pc = "create"
    /\ up.i < up.num_threads
    /\ tasks' = [tasks EXCEPT ![up.i] = TaskOf(up.i, up.num_threads, up.chunk_size, raw_size)]
    /\ threads' = [threads EXCEPT ![up.i] = "running"]
    /\ up' = [up EXCEPT !.i = up.i + 1]
    /\ UNCHANGED <<raw_data, raw_size, output_pixels, num_pixels, cpu_cores, avx2>>
    /\ UNCHANGED <<prodVars, rxVars>>

\* tasks[] is a local array of unpack_sbggr10_image.  Once the function has
\* returned while workers still hold pointers into it, what they read there
\* is the content of a dead stack frame: the tasks as they were left, or
\* what later calls have put in their place (here: ranges spanning the
\* whole input)
DeadFrame(ts) ==
    IF \E t \in ThreadIds : threads[t] = "running"
    THEN {ts, [t \in ThreadIds |-> [start_offset |-> 0, end_offset |-> raw_size,
                                    thread_id |-> t]]}
    ELSE {ts}

\* one iteration of the creation loop, pthread_create failing: return -1
UnpackCreateFail ==
    /\ up.pc = "create"
    /\ up.i < up.num_threads
    /\ tasks' \in DeadFrame([tasks EXCEPT ![up.i] =
                                 TaskOf(up.i, up.num_threads, up.chunk_size, raw_size)])
    /\ up' = [up EXCEPT !.pc = "ret", !.ret = -1]
    /\ UNCHANGED <<raw_data, raw_size, output_pixels, num_pixels, cpu_cores, avx2, threads>>
    /\ UNCHANGED <<prodVars, rxVars>>

UnpackCreateDone ==
    /\ up.pc = "create"
    /\ ~(up.i < up.num_threads)
    /\ up' = [up EXCEPT !.pc = "join", !.i = 0]
    /\ UNCHANGED <<raw_data, raw_size, output_pixels, num_pixels, cpu_cores, avx2, tasks, threads>>
    /\ UNCHANGED <<prodVars, rxVars>>

\* unpack_worker_thread run by thread t
WorkerRun(t) ==
    /\ threads[t] = "running"
    /\ output_pixels' = StoreAll(output_pixels, WorkerRuns(tasks[t]))
    /\ threads' = [threads EXCEPT ![t] = "finished"]
    /\ UNCHANGED <<raw_data, raw_size, num_pixels, cpu_cores, avx2, up, tasks>>
    /\ UNCHANGED <<prodVars, rxVars>>

\* pthread_join(threads[i]) returns once thread i has finished
UnpackJoin ==
    /\ up.pc = "join"
    /\ up.i < up.num_threads
    /\ threads[up.i] = "finished"
    /\ threads' = [threads EXCEPT ![up.i] = "joined"]
    /\ up' = [up EXCEPT !.i = up.i + 1]
    /\ UNCHANGED <<raw_data, raw_size, output_pixels, num_pixels, cpu_cores, avx2, tasks>>
    /\ UNCHANGED <<prodVars, rxVars>>

UnpackJoinDone ==
    /\ up.pc = "join"
    /\ ~(up.i < up.num_threads)
    /\ up' = [up EXCEPT !.pc = "ret", !.ret = 0]
    /\ UNCHANGED <<raw_data, raw_size, output_pixels, num_pixels, cpu_cores, avx2, tasks, threads>>
    /\ UNCHANGED <<prodVars, rxVars>>

\* ------------------------------------------------------------------------
\* The unpacker on its own: one call of unpack_sbggr10_image per behaviour
\* ------------------------------------------------------------------------
ByteSamples == {0, 165, 255}
ExampleGroup == <<255, 3, 0, 0, 0>>
StepSamples == {0, 37}
SmallSizes == 0..(5 * MaxGroups + 1)
ThresholdSize == ((MIN_CHUNK_SIZE + 4) \div 5) * 5
LargeSizes ==
    {MIN_CHUNK_SIZE - 1, ThresholdSize + 1} \cup {ThresholdSize + 5 * g : g \in 0..ExtraGroups}
CoreValues == (-1)..MaxCores

UnpackStart ==
    /\ up = [pc |-> "call", num_threads |-> 0, chunk_size |-> 0, i |-> 0, ret |-> 0]
    /\ output_pixels = {}
    /\ tasks = [t \in ThreadIds |-> NoTask]
    /\ threads = [t \in ThreadIds |-> "none"]

UnpackInit ==
    /\ UnpackStart
    /\ ProdStart
    /\ RxIdle
    /\ avx2 \in BOOLEAN
    /\ \/ \* every sampled content, on small valid inputs
          /\ raw_data \in [base : [1..5 -> ByteSamples] \cup {ExampleGroup}, step : StepSamples]
          /\ raw_size \in {5 * g : g \in 1..MaxGroups}
          /\ num_pixels = ExpectedPixels(raw_size)
          /\ cpu_cores = 4
       \/ \* every small length and capacity
          /\ raw_data = [base |-> ExampleGroup, step |-> 37]
          /\ raw_size \in SmallSizes
          /\ num_pixels \in {n \in {ExpectedPixels(raw_size) + d : d \in {-1, 0, 1}} : n >= 0}
          /\ cpu_cores \in {1, 4}
       \/ \* lengths around the multi-threading threshold, every core count
          /\ raw_data = [base |-> ExampleGroup, step |-> 37]
          /\ raw_size \in LargeSizes
          /\ num_pixels \in {ExpectedPixels(raw_size) - 1, ExpectedPixels(raw_size)}
          /\ cpu_cores \in CoreValues

UnpackNext ==
    \/ UnpackReject
    \/ UnpackSingle
    \/ UnpackDivZero
    \/ UnpackStartMulti
    \/ UnpackCreate
    \/ UnpackCreateFail
    \/ UnpackCreateDone
    \/ \E t \in ThreadIds : WorkerRun(t)
    \/ UnpackJoin
    \/ UnpackJoinDone

SpecUnpack == UnpackInit /\ [][UnpackNext]_vars

\* ------------------------------------------------------------------------
\* The producer on its own: capture, sender and signal handler
\* ------------------------------------------------------------------------
UnpackIdle ==
    /\ UnpackStart
    /\ raw_data = [base |-> ExampleGroup, step |-> 0]
    /\ raw_size = 0
    /\ num_pixels = 0
    /\ cpu_cores = 1
    /\ avx2 = FALSE

ProdInit == ProdStart /\ UnpackIdle /\ RxIdle

SpecProd == ProdInit /\ [][ProdNext]_vars

\* ------------------------------------------------------------------------
\* The producer under fair scheduling.  The kernel runs every thread that
\* can take a step (the main thread in capture_loop, the sender thread, and
\* the signal handler on the thread it interrupted); the driver fills a
\* queued buffer; select, VIDIOC_DQBUF and VIDIOC_QBUF return; a send() on a
\* connection whose client reads completes, and a send() on a socket that
\* was shut down fails; an accept() on a listening socket that was shut
\* down fails.  Nothing makes a client connect (accept may block for ever),
\* and nothing makes a signal arrive.
\* ------------------------------------------------------------------------
MainThread ==
    \/ CapLoop \/ CapSelectReady \/ CapSelectRetry \/ CapSelectError
    \/ CapDequeue \/ CapDequeueFail \/ CapCheckClient \/ CapLock \/ CapPublishData
    \/ CapPublish
    \/ CapQueue \/ CapQueueFail \/ MainJoin \/ MainCleanup
SenderThread ==
    \/ SndLoop \/ SndLock \/ SndWaitCheck \/ SndWake
    \/ SndSendCheck \/ SndAfterSend \/ SndUnlock \/ SndExit \/ SfLoop
SendCompletes == SfSendHeader \/ SfSendChunk
SendOnShutSocket == (SfSendHeaderFail \/ SfSendChunkFail) /\ ~CanSend(sf.fd)
AcceptOnShutSocket == SndAcceptFail /\ server_shut
SignalHandler == SigSetRunning \/ SigShutdown \/ SigLock \/ SigBroadcast

ProdFairness ==
    /\ WF_vars(MainThread)
    /\ WF_vars(SenderThread)
    /\ WF_vars(SendCompletes)
    /\ WF_vars(SendOnShutSocket)
    /\ WF_vars(AcceptOnShutSocket)
    /\ WF_vars(SignalHandler)
    /\ WF_vars(DriverFill)

SpecProdFair == ProdInit /\ [][ProdNext]_vars /\ ProdFairness

\* ------------------------------------------------------------------------
\* A receiver fed by an arbitrary peer: the byte stream is fixed at the
\* start and the peer has closed its end (fills = 0: send_frame is never
\* called on such a connection)
\* ------------------------------------------------------------------------
MaxStreamFrames == 2

BAD_MAGIC == U32(57005, 48878)
HeaderSamples ==
    { [magic |-> MAGIC, size |-> U32OfInt(1), sent |-> 1],
      [magic |-> MAGIC, size |-> U32OfInt(5), sent |-> 2],
      [magic |-> MAGIC, size |-> U32OfInt(MAX_FRAME_SIZE), sent |-> MAX_FRAME_SIZE],
      [magic |-> MAGIC, size |-> U32OfInt(MAX_FRAME_SIZE + 1), sent |-> MAX_FRAME_SIZE + 1],
      [magic |-> MAGIC, size |-> U32OfInt(0), sent |-> 3],
      [magic |-> MAGIC, size |-> U32(65535, 65535), sent |-> 3],
      [magic |-> BAD_MAGIC, size |-> U32OfInt(1), sent |-> 1],
      [magic |-> BAD_MAGIC, size |-> U32OfInt(0), sent |-> 0] }

SampleHeader(s, n) ==
    [magic |-> s.magic, frame_id |-> U32OfInt(n - 1), width |-> U32OfInt(WIDTH),
     height |-> U32OfInt(HEIGHT), pixfmt |-> PIXFMT_SBGGR10, size |-> s.size,
     timestamp |-> U64OfInt(n), reserved |-> <<U32OfInt(0), U32OfInt(0)>>]

RECURSIVE StreamOf(_, _)
StreamOf(samples, n) ==
    IF n > Len(samples) THEN <<>>
    ELSE Join(Join(<<Seg(HeaderBytes(SampleHeader(samples[n], n)))>>,
                   IF samples[n].sent = 0 THEN <<>>
                   ELSE <<FillSeg(n, 0, samples[n].sent)>>),
              StreamOf(samples, n + 1))

SampleLists == UNION {[1..n -> HeaderSamples] : n \in 1..MaxStreamFrames}

RecvInit ==
    /\ \E samples \in SampleLists : ProdAt(1, {}, StreamOf(samples, 1), "done")
    /\ UnpackIdle
    /\ RxStart
    /\ config \in [enable_save : {0, 1}, enable_conversion : {0}, save_interval : {1, 2}]


\* three frames with frame_id 0, 1, 2 and one payload byte each, then the
\* peer closes; files are saved every save_interval frames
SaveInit ==
    /\ LET good == [magic |-> MAGIC, size |-> U32OfInt(1), sent |-> 1]
       IN  ProdAt(1, {}, StreamOf(<<good, good, good>>, 1), "done")
    /\ UnpackIdle
    /\ RxStart
    /\ config \in [enable_save : {1}, enable_conversion : {0}, save_interval : {1, 2, 3}]

\* up to two BG10 frames whose payload sizes are and are not multiples of
\* 5, every frame due to be saved, with and without conversion
ConvSamples == {[magic |-> MAGIC, size |-> U32OfInt(n), sent |-> n] : n \in {1, 5, 6, 10}}
ConvInit ==
    /\ \E samples \in UNION {[1..n -> ConvSamples] : n \in 1..MaxStreamFrames} :
          ProdAt(1, {}, StreamOf(samples, 1), "done")
    /\ UnpackIdle
    /\ RxStart
    /\ config \in [enable_save : {1}, enable_conversion : {0, 1}, save_interval : {1}]

\* a long session, one frame before its end: the peer has sent frames of
\* the largest accepted size, one fewer than it takes for their sizes to
\* add up to more than a uint32_t holds; receive_loop has received them all
\* (stats is what update_stats made of them) and is back at its loop test;
\* one more such frame is on the stream, then the peer closes.  Nothing is
\* saved.  Stream positions are counted from the end of the frames already
\* received.
WrapFrames == (Limb \div (MAX_FRAME_SIZE \div Limb)) + 1
BigFrame == [magic |-> MAGIC, size |-> U32OfInt(MAX_FRAME_SIZE), sent |-> MAX_FRAME_SIZE]
\* stats after n such frames, for n below WrapFrames (no carry out of 32 bits)
StatsAfter(n) ==
    [frames_received |-> n, bytes_received |-> U32(n * (MAX_FRAME_SIZE \div Limb), 0)]
LongInit ==
    /\ ProdAt(1, {}, StreamOf([n \in 1..WrapFrames |-> BigFrame], WrapFrames), "done")
    /\ UnpackIdle
    /\ rx_running = 1
    /\ config = [enable_save |-> 0, enable_conversion |-> 0, save_interval |-> 1]
    /\ rx = [RxAtLoop EXCEPT !.frames =
                [n \in 1..(WrapFrames - 1) |->
                    [header |-> SampleHeader(BigFrame, n),
                     payload |-> <<FillSeg(n, 0, MAX_FRAME_SIZE)>>,
                     saved |-> "skipped", ret |-> 0]]]
    /\ frame_buffer = <<FillSeg(WrapFrames - 1, 0, MAX_FRAME_SIZE)>>
    /\ buffer_size = MAX_FRAME_SIZE
    /\ stats = StatsAfter(WrapFrames - 1)
    /\ files = {}
    /\ unpacked_files = {}
    /\ rx_pos = 0

\* ------------------------------------------------------------------------
\* One connection end to end: send_frame is called for a series of frames
\* as usb_sender_thread calls it, and receive_loop reads what it writes
\* (or reads the stream of an arbitrary peer)
\* ------------------------------------------------------------------------
MaxFrames == 2       \* send_frame calls on the connection

\* frames handed to send_frame: buffer 0 holds the driver's frame fill
FrameSamples ==
    { [frame_id |-> 0, size |-> 1, timestamp |-> 1, fill |-> 1],
      [frame_id |-> 70000, size |-> CHUNK_SIZE + 1, timestamp |-> 2147483647, fill |-> 2],
      [frame_id |-> 1, size |-> 2 * CHUNK_SIZE + 3, timestamp |-> 65536, fill |-> 3],
      [frame_id |-> 2, size |-> 0, timestamp |-> 3, fill |-> 4] }

\* send_frame(client_fd, current_frame.data, current_frame.size, ...)
WireCall ==
    /\ snd.pc = "call"
    /\ fills < MaxFrames
    /\ \E f \in FrameSamples :
          /\ bufmem' = [bufmem EXCEPT ![0] = f.fill]
          /\ sf' = [fd |-> client_fd, data |-> 0, size |-> f.size, frame_id |-> f.frame_id,
                    timestamp |-> f.timestamp, sent |-> 0, ret |-> 0]
    /\ fills' = fills + 1
    /\ snd' = [snd EXCEPT !.pc = "sf_header"]
    /\ UNCHANGED <<running, client_connected, client_fd, server_shut, frame_mutex,
                   current_frame, open_conns, shut_conns, next_conn, drv_queued, drv_done,
                   clock, cap, sig, wire, tx_log, handoff>>
    /\ UNCHANGED <<unpackVars, rxVars>>

\* send_frame returned: if it failed, close(client_fd)
WireReturn ==
    /\ snd.pc = "sf_ret"
    /\ open_conns' = IF sf.ret < 0 THEN open_conns \ {client_fd} ELSE open_conns
    /\ snd' = [snd EXCEPT !.pc = IF sf.ret < 0 THEN "done" ELSE "call"]
    /\ sf' = NoCall
    /\ UNCHANGED <<running, client_connected, client_fd, server_shut, frame_mutex,
                   current_frame, shut_conns, next_conn, drv_queued, drv_done,
                   bufmem, fills, clock, cap, sig, wire, tx_log, handoff>>
    /\ UNCHANGED <<unpackVars, rxVars>>

\* the sender thread ends: close(client_fd)
WireClose ==
    /\ snd.pc = "call"
    /\ open_conns' = open_conns \ {client_fd}
    /\ snd' = [snd EXCEPT !.pc = "done"]
    /\ UNCHANGED <<running, client_connected, client_fd, server_shut, frame_mutex,
                   current_frame, shut_conns, next_conn, drv_queued, drv_done,
                   bufmem, fills, clock, cap, sf, sig, wire, tx_log, handoff>>
    /\ UNCHANGED <<unpackVars, rxVars>>

WireInit ==
    /\ ProdAt(1, {1}, <<>>, "call")
    /\ UnpackIdle
    /\ RxStart
    /\ config = [enable_save |-> 1, enable_conversion |-> 0, save_interval |-> 1]

WireNext ==
    \/ WireCall \/ WireReturn \/ WireClose
    \/ SfSendHeader \/ SfSendHeaderFail \/ SfLoop \/ SfSendChunk \/ SfSendChunkFail
    \/ RxNext

SpecWire == (WireInit \/ RecvInit \/ SaveInit \/ ConvInit \/ LongInit) /\ [][WireNext]_vars


\* ------------------------------------------------------------------------
\* Claims about the unpacker
\* ------------------------------------------------------------------------
\* ------------------------------------------------------------------------
\* Properties of the producer (under SpecProd)
\* ------------------------------------------------------------------------
InDriver == {drv_queued[i] : i \in 1..Len(drv_queued)} \cup {drv_done[i] : i \in 1..Len(drv_done)}
InSendFrame == snd.pc \in {"sf_header", "sf_loop", "sf_chunk"}

\* C1: in no reachable state is the sender reading, or about to read through
\* current_frame.data, a capture buffer that is queued to the driver: a
\* published buffer is re-queued only after the send_frame call reading it
\* has returned.
C1_NoQueuedBufferRead ==
    /\ InSendFrame => sf.data \notin InDriver
    /\ (current_frame.data # NULL /\ client_connected = 1) => current_frame.data \notin InDriver

\* C2: every buffer capture_loop dequeues is re-queued exactly once before
\* the next iteration, whatever select, DQBUF and QBUF return: no buffer is
\* queued twice, and between iterations (and when the loop has ended, before
\* the cleanup) no buffer is left out of the driver.
C2_RequeuedExactlyOnce ==
    /\ \A i, j \in 1..Len(drv_queued \o drv_done) :
          i # j => (drv_queued \o drv_done)[i] # (drv_queued \o drv_done)[j]
    /\ cap.pc \in {"loop", "select", "dqbuf", "join"} => InDriver = Buffers

\* C3: capture_loop never waits for the sender: while the sender is inside
\* send_frame the capture thread is never held at its pthread_mutex_lock by
\* the sender's ownership of frame_mutex.
C3_CaptureNeverWaitsForSend ==
    ~(InSendFrame /\ cap.pc = "lock" /\ frame_mutex = "sender")

\* C4: current_frame holds at most one frame and the latest publish wins: a
\* frame that was still in the slot when the next one was published is never
\* handed to send_frame, and every send_frame call carries the most recently
\* published frame.
C4_LatestWins ==
    /\ handoff.dropped \cap handoff.sent = {}
    /\ (InSendFrame \/ snd.pc = "sf_ret") => sf.timestamp = handoff.last
    /\ \A i \in 1..Len(tx_log) :
          \A d \in handoff.dropped : tx_log[i].header.timestamp # U64OfInt(d)

\* C4 witness: a frame was overwritten in the slot before the sender took
\* it, and a later frame has had its header written to the connection
C4_Witness ==
    /\ tx_log # <<>>
    /\ \E d \in handoff.dropped : \E t \in handoff.sent :
          t > d /\ tx_log[Len(tx_log)].header.timestamp = U64OfInt(t)

\* ------------------------------------------------------------------------
\* Properties of the wire format (under SpecWire)
\* ------------------------------------------------------------------------
\* every frame receive_loop has completed is the frame send_frame wrote at
\* the same position of the stream, field by field and byte by byte, and no
\* header send_frame wrote is refused
RoundTrip ==
    /\ Len(rx.frames) <= Len(tx_log)
    /\ rx.pc = "validate" =>
          /\ Len(rx.frames) < Len(tx_log)
          /\ rx.header = tx_log[Len(rx.frames) + 1].header
    /\ \A i \in 1..Len(rx.frames) :
          /\ rx.frames[i].header.magic = tx_log[i].header.magic
          /\ rx.frames[i].header.frame_id = tx_log[i].header.frame_id
          /\ rx.frames[i].header.width = tx_log[i].header.width
          /\ rx.frames[i].header.height = tx_log[i].header.height
          /\ rx.frames[i].header.pixfmt = tx_log[i].header.pixfmt
          /\ rx.frames[i].header.size = tx_log[i].header.size
          /\ rx.frames[i].header.timestamp = tx_log[i].header.timestamp
          /\ StreamLen(rx.frames[i].payload) = IntOfU32(tx_log[i].header.size)
          /\ rx.frames[i].payload = tx_log[i].payload
    /\ rx.end_reason # "bad_magic"
    /\ rx.end_reason = "bad_size" => U32IsZero(rx.header.size)

\* send_frame has been called on the connection: the stream is the
\* producer's, not an arbitrary peer's
FromSendFrame == fills > 0

\* what the calls of send_frame asked for is what the headers say
HeadersAsCalled ==
    InSendFrame /\ snd.pc # "sf_header" =>
        LET h == tx_log[Len(tx_log)].header
        IN  /\ h.magic = MAGIC
            /\ IntOfU32(h.frame_id) = sf.frame_id
            /\ IntOfU32(h.size) = sf.size
            /\ h.timestamp = U64OfInt(sf.timestamp)
            /\ sf.sent <= sf.size
            /\ tx_log[Len(tx_log)].payload = Take(BufferBytes(bufmem[sf.data], 0, sf.size), sf.sent)

C6_BadMagicEndsSession ==
    [][ /\ (rx.pc = "validate" /\ rx.header.magic # MAGIC /\ rx' # rx)
            => /\ rx'.pc = "done" /\ rx'.end_reason = "bad_magic"
               /\ UNCHANGED <<rx_pos, files, unpacked_files, stats, frame_buffer, buffer_size>>
        /\ rx.end_reason = "bad_magic"
            => /\ UNCHANGED <<rx_pos, files, unpacked_files, stats>>
               /\ rx'.end_reason = "bad_magic" /\ rx'.frames = rx.frames ]_vars

\* C6 witness: after one good frame a header with a bad magic and a valid
\* size ended the session, with its payload bytes left unread
C6_Witness ==
    /\ rx.pc = "returned" /\ rx.end_reason = "bad_magic"
    /\ rx.header.size = U32OfInt(1)
    /\ stats.frames_received = 1
    /\ Avail = 1

ValidSize(h) == ~U32IsZero(h.size) /\ ~U32GtInt(h.size, 50 * 1024 * 1024)
ReadsPayload(r, h) ==
    r.pc = "recv_loop" /\ r.stage = "payload" /\ r.received = 0 /\ r.want = IntOfU32(h.size)

\* C7 as stated: a header with size 0 or size > 50 MiB ends the session with
\* no payload read; a header with valid magic and 1 <= size <= 50 MiB always
\* goes on to the payload read.
C7_Original ==
    [][ /\ (rx.pc = "validate" /\ ~ValidSize(rx.header) /\ rx' # rx)
            => rx'.pc = "done" /\ rx_pos' = rx_pos
        /\ (rx.pc = "validate" /\ rx.header.magic = MAGIC /\ ValidSize(rx.header) /\ rx' # rx)
            => ReadsPayload(rx', rx.header)
        /\ rx.pc \in {"done", "returned", "exited"} => rx_pos' = rx_pos ]_vars

\* C7 as amended: a header with size 0 or size > 50 MiB ends the session
\* with no payload read; a header with valid magic and 1 <= size <= 50 MiB
\* (50 MiB included) goes on to the payload read, into a buffer of at least
\* size bytes, unless the buffer has to grow and malloc fails, which ends
\* the session.
C7_SizeCheck ==
    [][ /\ (rx.pc = "validate" /\ ~ValidSize(rx.header) /\ rx' # rx)
            => rx'.pc = "done" /\ rx_pos' = rx_pos
        /\ (rx.pc = "validate" /\ rx.header.magic = MAGIC /\ ValidSize(rx.header) /\ rx' # rx)
            => \/ ReadsPayload(rx', rx.header) /\ buffer_size' >= IntOfU32(rx.header.size)
               \/ /\ rx'.pc = "done" /\ rx'.end_reason = "alloc"
                  /\ IntOfU32(rx.header.size) > buffer_size
                  /\ rx_pos' = rx_pos
        /\ rx.pc \in {"done", "returned", "exited"} => rx_pos' = rx_pos ]_vars

\* C7 witness: a payload of exactly 50 MiB has been read completely
C7_Witness ==
    /\ rx.pc = "process"
    /\ rx.header.size = U32OfInt(50 * 1024 * 1024)
    /\ rx.received = 50 * 1024 * 1024
    /\ rx_pos = SIZEOF_HEADER + 50 * 1024 * 1024

\* ------------------------------------------------------------------------
\* Properties of the unpacker (under SpecUnpack)
\* ------------------------------------------------------------------------
WholeBuffer == [start_offset |-> 0, end_offset |-> raw_size, thread_id |-> 0]
UnpackValid == raw_size % 5 = 0 /\ num_pixels >= ExpectedPixels(raw_size)

\* the four samples of a 5-byte group, by byte arithmetic
GroupSamples(b) ==
    <<b[1] + (b[2] % 4) * 256,
      b[2] \div 4 + (b[3] % 16) * 64,
      b[3] \div 16 + (b[4] % 64) * 16,
      b[4] \div 64 + b[5] * 4>>

\* C8: for every 5-byte group, unpack_sbggr10_scalar emits the four 10-bit
\* fields of the 40-bit little-endian word b0 | b1<<8 | b2<<16 | b3<<24 |
\* b4<<32, least significant first (field i is (v >> 10i) & 0x3FF, written
\* here by byte arithmetic); every sample lies in 0..1023; the group
\* [0xFF,0x03,0,0,0] yields (1023,0,0,0).  Checked on the leading groups
\* of every input when the call is made, and, when the call has returned, on
\* the first four and the last sample of every stretch of the output that
\* was written.
C8_ScalarUnpack ==
    /\ up.pc = "call" =>
          /\ unpack_sbggr10_scalar(ExampleGroup) = <<1023, 0, 0, 0>>
          /\ \A g \in 0..(Min(raw_size \div 5, MaxGroups + 1) - 1) :
                /\ unpack_sbggr10_scalar(RawGroup(5 * g)) = GroupSamples(RawGroup(5 * g))
                /\ \A l \in 1..4 : unpack_sbggr10_scalar(RawGroup(5 * g))[l] \in 0..1023
    /\ up.pc = "ret" =>
          \A o \in output_pixels : \A p \in {o.lo, o.lo + 1, o.lo + 2, o.lo + 3, o.hi - 1} :
              LET s == SourceOf(output_pixels, p)
              IN  /\ PixelAt(output_pixels, p) = GroupSamples(RawGroup(s[1]))[s[2] + 1]
                  /\ PixelAt(output_pixels, p) \in 0..1023

\* C8 witness: the example group has been unpacked into the output
C8_Witness ==
    /\ up.pc = "ret" /\ up.ret = 0
    /\ raw_data.base = ExampleGroup /\ raw_data.step = 37 /\ raw_size = 10
    /\ PixelAt(output_pixels, 0) = 1023 /\ PixelAt(output_pixels, 1) = 0
    /\ PixelAt(output_pixels, 4) = 36

\* C9: every input of length 5k with room for 4k samples is unpacked
\* successfully into exactly 4k samples.  Stated here for k >= 1 only: the
\* empty input (k = 0), which unpack_sbggr10_image rejects, is left aside.
C9_UnpackLength ==
    (up.pc \in {"ret", "crashed"} /\ UnpackValid /\ raw_size > 0)
        => /\ up.pc = "ret" /\ up.ret = 0
           /\ WrittenCount(output_pixels) = ExpectedPixels(raw_size)

\* C10: for every valid buffer and every worker count from 1 to 8, a call
\* that returns success leaves the output array equal, sample by sample, to
\* the one the single-threaded path writes for the whole buffer, whatever
\* the order in which the workers ran.
C10_ParallelEqualsSerial ==
    (up.pc = "ret" /\ up.ret = 0 /\ up.num_threads \in 1..MAX_UNPACK_THREADS)
        => SameArray(output_pixels, StoreAll({}, WorkerRuns(WholeBuffer)))

\* C10 witness: eight workers have unpacked a buffer that does not split evenly
C10_Witness ==
    /\ up.pc = "ret" /\ up.ret = 0 /\ up.num_threads = 8
    /\ raw_size = ThresholdSize
    /\ ThresholdSize % (5 * 8) # 0
    /\ Cardinality(output_pixels) >= 8

\* the tasks that have been handed to a worker: tasks[i] of every created
\* thread, and the whole buffer on the single-threaded path
Handed ==
    {tasks[t] : t \in {u \in ThreadIds : threads[u] # "none"}} \cup
    (IF up.pc = "ret" /\ up.ret = 0 /\ up.num_threads = 1 THEN {WholeBuffer} ELSE {})

\* C11: for every input length and every worker count, the start_offset and
\* the end_offset of every task that unpack_sbggr10_image hands to a worker
\* are multiples of 5, so that no 5-byte group spans two chunks.
C11_ChunkBoundaries ==
    \A task \in Handed : task.start_offset % 5 = 0 /\ task.end_offset % 5 = 0

\* C11 witness: three workers were handed chunks of a buffer whose third is
\* not a multiple of 5 bytes
C11_Witness ==
    /\ up.num_threads = 3
    /\ (raw_size \div 3) % 5 # 0
    /\ \A t \in 0..2 : threads[t] # "none"
    /\ tasks[1].start_offset = up.chunk_size
    /\ tasks[2].end_offset = raw_size
    /\ tasks[2].end_offset - tasks[2].start_offset > up.chunk_size

\* C12: unpack_sbggr10_image rejects an input whose length is not a multiple
\* of 5, and an output capacity below length/5*4 samples: the call returns
\* -1, no worker has been started and no element of the output array has
\* been written, at any moment of the call.
C12_RejectsInvalid ==
    (raw_size % 5 # 0 \/ num_pixels < ExpectedPixels(raw_size)) =>
        /\ up.pc \in {"call", "ret"}
        /\ up.pc = "ret" => up.ret = -1
        /\ \A t \in ThreadIds : threads[t] = "none"
        /\ output_pixels = {}

\* C12 witness: a buffer large enough for the multi-threaded path, on a
\* machine with several cores, was rejected for its capacity
C12_Witness ==
    /\ up.pc = "ret" /\ up.ret = -1
    /\ raw_size = ThresholdSize /\ cpu_cores = 4
    /\ num_pixels = ExpectedPixels(raw_size) - 1

\* the same for a length that is not a multiple of 5
C12_WitnessLength ==
    /\ up.pc = "ret" /\ up.ret = -1
    /\ raw_size = ThresholdSize + 1 /\ cpu_cores = 4
    /\ num_pixels = ExpectedPixels(raw_size)

\* ------------------------------------------------------------------------
\* Properties of the receiver's persistence (under SpecWire)
\* ------------------------------------------------------------------------
\* the frames receive_loop has received completely and dealt with
Processed == {i \in 1..Len(rx.frames) : rx.frames[i].saved # "pending"}
FrameIdOf(i) == IntOfU32(rx.frames[i].header.frame_id)
HasFile(i) == \E f \in files : f.frame_id = rx.frames[i].header.frame_id

\* C13 as stated: with persistence enabled and save_interval N >= 1, a
\* completely received frame has a file if and only if frame_id modulo N is 0.
C13_Original ==
    config.enable_save = 1 =>
        \A i \in Processed : HasFile(i) <=> FrameIdOf(i) % config.save_interval = 0

\* C13 amended: with persistence enabled and save_interval N >= 1, a file
\* exists for a frame_id if and only if a completely received frame with
\* that frame_id had frame_id modulo N = 0 and fopen of its file succeeded,
\* and the file holds such a frame's payload; so for received frame_ids
\* 0,1,2 with every fopen succeeding, N=1 leaves three files and N=2 exactly
\* the files of frame_id 0 and 2.
C13_SaveInterval ==
    config.enable_save = 1 =>
        /\ \A i \in Processed :
              rx.frames[i].saved = "saved" <=>
                  (FrameIdOf(i) % config.save_interval = 0 /\ rx.frames[i].saved # "open_failed")
        /\ \A i \in Processed : rx.frames[i].saved = "saved" => HasFile(i)
        /\ \A f \in files : \E i \in Processed :
              /\ rx.frames[i].saved = "saved"
              /\ FrameIdOf(i) % config.save_interval = 0
              /\ f = RawFile(rx.frames[i].header, rx.frames[i].payload)

\* C13 witness: frames 0, 1, 2 were received with save_interval 2 and the
\* files of frames 0 and 2, and no other, exist
C13_Witness ==
    /\ config.enable_save = 1 /\ config.save_interval = 2
    /\ Processed = {1, 2, 3}
    /\ {FrameIdOf(i) : i \in Processed} = {0, 1, 2}
    /\ {IntOfU32(f.frame_id) : f \in files} = {0, 2}

\* the same with save_interval 1: three files
C13_WitnessEvery ==
    /\ config.enable_save = 1 /\ config.save_interval = 1
    /\ Processed = {1, 2, 3}
    /\ {IntOfU32(f.frame_id) : f \in files} = {0, 1, 2}

\* C14: when recv fails (the peer closed the connection, or the read timed
\* out) while receive_loop is reading a payload, the session ends and never
\* resumes, and no file is created or written for that frame: a file is
\* only ever written after its payload has been received completely, and
\* it holds exactly the payload bytes of the stream.
C14_NoPartialFile ==
    [][ /\ rx.pc # "process" => files' = files
        /\ (rx.pc = "process" /\ files' # files) =>
              /\ rx.received = rx.want
              /\ rx.want = IntOfU32(rx.header.size)
              /\ files' = files \cup {RawFile(rx.header, Slice(wire, rx_pos - rx.want, rx.want))}
        /\ (rx.pc = "recv" /\ rx.stage = "payload" /\ rx'.pc \notin {"recv", "recv_loop"}) =>
              rx' = Ended(rx, "recv")
        /\ rx.pc \in {"done", "returned", "exited"} => rx'.pc \in {"done", "returned", "exited"} ]_vars

\* C14 witness: the peer closed after 2 of 5 payload bytes of a frame that
\* was due to be saved; the session has ended and there is no file
C14_Witness ==
    /\ rx.pc = "returned" /\ rx.end_reason = "recv" /\ rx.stage = "payload"
    /\ rx.received = 2 /\ rx.want = 5
    /\ Avail = 0 /\ PeerClosed
    /\ config.enable_save = 1 /\ config.save_interval = 1
    /\ files = {}

SndStep(pc) == snd.pc = pc /\ snd'.pc # pc
\* bytes the step puts on the stream
BytesWritten == StreamLen(wire') - StreamLen(wire)

SendFailed == snd.pc = "sf_ret" /\ sf.ret < 0
\* a whole frame (header and payload) is on the stream of the open connection
FrameDelivered ==
    /\ tx_log # <<>>
    /\ StreamLen(tx_log[1].payload) = IntOfU32(tx_log[1].header.size)
\* a client that connected after an earlier client was dropped, and a frame
\* published for it
Reconnected == next_conn >= 2 /\ client_connected = 1 /\ client_fd = next_conn
FrameWaiting == Reconnected /\ current_frame.data # NULL

\* C17: a send failure never terminates the sender thread or the process
\* while running == 1 (the sender leaves its loop, and main gets past
\* pthread_join, only with running == 0); after a failed send_frame the
\* sender eventually is back at accept, unless a shutdown sets running to 0;
\* and a frame that capture publishes for a client that connected afterwards
\* is eventually delivered to it whole, unless the shutdown comes first or
\* that connection fails too.
C17_SendFailureNotFatal ==
    /\ []((snd.pc \in {"exit", "done"} \/ cap.pc \in {"cleanup", "exited"}) => running = 0)
    /\ SendFailed ~> (snd.pc = "accept" \/ running = 0)
    /\ FrameWaiting ~> (FrameDelivered \/ running = 0 \/ client_connected = 0)

\* C17 witness: the first client was dropped after a failed send, a second
\* client connected and has received a whole frame, with running still 1
C17_Witness ==
    /\ next_conn = 2 /\ client_connected = 1 /\ client_fd = 2
    /\ FrameDelivered
    /\ running = 1 /\ sig.pc = "idle"

\* C18: the frame_id of every header that send_frame writes to the wire is
\* greater than the frame_id of the header written before it, over the
\* lifetime of the producer process (gaps allowed), also across client
\* reconnects and after iterations in which a dequeue or re-queue failed.
C18_FrameIdsIncrease ==
    [][ (snd.pc = "sf_header" /\ snd'.pc = "sf_loop") =>
            sf.frame_id > handoff.last_id ]_vars

\* C19: once signal_handler has set running to 0, the sender thread
\* eventually terminates, whether it was blocked in accept, in
\* pthread_cond_wait or inside send_frame, and capture_loop eventually
\* returns, so that main's pthread_join completes and the process exits.
C19_ShutdownTerminates ==
    (running = 0) ~> (snd.pc = "done" /\ cap.pc = "exited")

\* C20: after a session ended by a transport failure (recv returned 0 or
\* an error: the peer closed the connection, or the read timed out) with
\* running still 1, the receiver does not exit: it makes a new connection
\* attempt.
C20_RetryAfterFailure ==
    ~(rx.pc = "exited" /\ rx.end_reason = "recv" /\ rx_running = 1)

\* ------------------------------------------------------------------------
\* C21: when the capture device fails (select fails with an errno other than
\* EINTR), capture_loop terminates and the value it returns to main differs
\* from 0, the value it returns after a normal shutdown (running = 0).
\* ------------------------------------------------------------------------
C21_DeviceFailureDistinct ==
    (cap.pc \in {"join", "cleanup", "exited"} /\ cap.broke) => cap.ret # 0

\* C22: with persistence and conversion both enabled, whenever save_frame
\* has returned 0 for a frame whose pixfmt is BG10, both the raw file and
\* the sibling file of unpacked samples exist for that frame_id, whatever
\* the payload size.
HasUnpackedFile(i) == \E u \in unpacked_files : u.frame_id = rx.frames[i].header.frame_id
C22_RawAndUnpacked ==
    (config.enable_save = 1 /\ config.enable_conversion = 1) =>
        \A i \in Processed :
            (/\ rx.frames[i].saved = "saved"
             /\ rx.frames[i].ret = 0
             /\ rx.frames[i].header.pixfmt = PIXFMT_SBGGR10) =>
                HasFile(i) /\ HasUnpackedFile(i)

\* ------------------------------------------------------------------------
\* Properties of the capture loop's buffer rotation (under SpecProd)
\* ------------------------------------------------------------------------
\* C23: in an iteration of capture_loop that published its buffer into
\* current_frame, the buffer given back to the driver afterwards is not the
\* one just published (it is the one dequeued an iteration earlier), so
\* that recycling runs one cycle behind delivery.
C23_RecycleOneBehind ==
    [][ (/\ cap.pc = "qbuf"
         /\ handoff.last = cap.timestamp
         /\ drv_queued' # drv_queued) =>
            drv_queued' # Append(drv_queued, cap.buf_index) ]_vars

\* C24: while no client is connected (client_connected = 0 and the sender
\* thread is at accept), current_frame.data is NULL: capture_loop does not
\* publish into current_frame, whatever the interleaving of the capture
\* thread with a disconnect handled by the sender thread.
C24_NoPublishWithoutClient ==
    (client_connected = 0 /\ snd.pc = "accept") => current_frame.data = NULL

\* C25: a select timeout or a failed VIDIOC_DQBUF does not end capture_loop.
\* The pass that met it goes back to the loop test with the driver's queues
\* and current_frame untouched; capture_loop returns after such a pass only
\* once running is 0 (or select itself has failed); and the frames the
\* driver delivers afterwards are dequeued and published as usual.
C25_RetryDoesNotEndLoop ==
    /\ []((/\ cap.retry # "none"
           /\ cap.pc \in {"join", "cleanup", "exited"}
           /\ ~cap.broke) => running = 0)
    /\ [][ (cap'.retry # cap.retry /\ cap'.retry # "none") =>
              /\ cap'.pc = "loop"
              /\ UNCHANGED <<drv_queued, drv_done, current_frame, running>> ]_vars
    /\ [][ (cap.pc = "loop" /\ cap'.pc # "loop" /\ running = 1) => cap'.pc = "select" ]_vars

\* C25 witness: a frame has just been published by a pass of capture_loop
\* that came after a failed dequeue, with running still 1
C25_Witness ==
    /\ cap.retry = "dqbuf"
    /\ cap.pc = "qbuf"
    /\ current_frame.data = cap.buf_index
    /\ current_frame.timestamp = cap.timestamp
    /\ running = 1

\* the same after a select timeout
C25_WitnessTimeout ==
    /\ cap.retry = "select"
    /\ cap.pc = "qbuf"
    /\ current_frame.data = cap.buf_index
    /\ current_frame.timestamp = cap.timestamp
    /\ running = 1 /\ sig.pc = "idle"

\* ------------------------------------------------------------------------
\* Properties of recv_full (under SpecWire)
\* ------------------------------------------------------------------------
InRecvFull(r) == r.pc \in {"recv_loop", "recv"}
\* the bytes the recv_full call in progress has stored so far
Accumulated == IF rx.stage = "header" THEN rx.hdr_buf ELSE Take(frame_buffer, rx.received)
\* the last n bytes the receiver has taken from the stream
Consumed(n) == IF rx.stage = "header" THEN Bytes(Slice(wire, rx_pos - n, n))
               ELSE Slice(wire, rx_pos - n, n)

\* C26: recv_full(sock, buf, n) returns success if and only if exactly n
\* bytes have been accumulated into buf, however the stream is split across
\* recv calls, and these are the next n bytes of the stream; it returns
\* failure if the peer closes, a recv fails or times out, or shutdown is
\* requested before n bytes have arrived; it never takes more than n bytes
\* from the socket.
C26_RecvFull ==
    /\ [](InRecvFull(rx) =>
             /\ rx.received <= rx.want
             /\ rx.received <= rx_pos
             /\ rx.received > 0 =>
                   Accumulated = Consumed(rx.received))
    /\ [][ (InRecvFull(rx) /\ InRecvFull(rx')) =>
              rx_pos' - rx_pos = rx'.received - rx.received ]_vars
    /\ [][ (InRecvFull(rx) /\ ~InRecvFull(rx')) =>
              /\ rx_pos' = rx_pos
              /\ IF rx.pc = "recv_loop" /\ rx.received = rx.want
                 THEN rx'.pc \in {"validate", "process"}
                 ELSE rx' = Ended(rx, "recv") ]_vars

\* C26 witness: recv_full has accumulated all 40 bytes of a header over
\* several recv calls, one of which returned fewer bytes than asked for,
\* and is about to return success
C26_Witness ==
    /\ rx.pc = "recv_loop" /\ rx.stage = "header"
    /\ rx.split
    /\ rx.received = SIZEOF_HEADER /\ rx.want = SIZEOF_HEADER
    /\ rx_running = 1

\* the failure cases: shutdown requested, and the peer closing, before n
\* bytes have arrived
C26_WitnessShutdown ==
    /\ rx.pc = "done" /\ rx.end_reason = "recv"
    /\ rx.received > 0 /\ rx.received < rx.want
    /\ rx_running = 0
C26_WitnessClosed ==
    /\ rx.pc = "done" /\ rx.end_reason = "recv"
    /\ rx.received > 0 /\ rx.received < rx.want
    /\ rx_running = 1 /\ Avail = 0 /\ PeerClosed

\* ------------------------------------------------------------------------
\* Properties of receive_loop's payload buffer (under SpecWire)
\* ------------------------------------------------------------------------
\* C27: across one session of receive_loop the capacity buffer_size of the
\* payload buffer never decreases; the buffer is replaced only when
\* header.size exceeds the capacity, and then by one of exactly header.size
\* bytes; and whenever a payload is read into the buffer, the buffer holds
\* buffer_size >= header.size bytes.
C27_BufferGrowsOnly ==
    /\ [][ buffer_size' >= buffer_size ]_vars
    /\ [][ buffer_size' # buffer_size =>
              /\ rx.pc = "validate"
              /\ IntOfU32(rx.header.size) > buffer_size
              /\ buffer_size' = IntOfU32(rx.header.size) ]_vars
    /\ [][ (rx.pc = "validate" /\ rx'.pc = "recv_loop"
            /\ IntOfU32(rx.header.size) <= buffer_size) =>
              frame_buffer' = frame_buffer ]_vars
    /\ []((rx.stage = "payload" /\ InRecvFull(rx)) =>
             /\ rx.want = IntOfU32(rx.header.size)
             /\ buffer_size >= rx.want
             /\ StreamLen(frame_buffer) = buffer_size)

\* C27 witness: after a frame of 10 bytes the payload of a frame of 1 byte
\* is being read into the buffer, whose capacity is still 10
C27_Witness ==
    /\ rx.stage = "payload" /\ InRecvFull(rx)
    /\ Len(rx.frames) = 1
    /\ IntOfU32(rx.frames[1].header.size) = 10
    /\ rx.want = 1
    /\ buffer_size = 10

\* the buffer has grown: a frame of 10 bytes follows one of 5 bytes
C27_WitnessGrown ==
    /\ rx.stage = "payload" /\ InRecvFull(rx)
    /\ Len(rx.frames) = 1
    /\ IntOfU32(rx.frames[1].header.size) = 5
    /\ rx.want = 10
    /\ buffer_size = 10

\* ------------------------------------------------------------------------
\* Properties of the unpacker's worker threads (under SpecUnpack)
\* ------------------------------------------------------------------------
\* C28: when unpack_sbggr10_image has returned, with 0 or with -1, no
\* worker thread it created is still running (none can still read its task
\* or write to the output buffer).
C28_NoWorkerOutlivesCall ==
    up.pc = "ret" => \A t \in ThreadIds : threads[t] # "running"

\* the output index ranges [lo, hi) that worker t writes for its task
Created == {t \in ThreadIds : threads[t] # "none"}
RangesOf(t) == {[lo |-> r.lo, hi |-> r.hi] : r \in {WorkerRuns(tasks[t])[k] : k \in 1..Len(WorkerRuns(tasks[t]))}}
RECURSIVE TotalLength(_)
TotalLength(rs) ==
    IF rs = {} THEN 0
    ELSE LET r == CHOOSE x \in rs : TRUE IN (r.hi - r.lo) + TotalLength(rs \ {r})

\* C29: in the multi-threaded path of unpack_sbggr10_image the output index
\* ranges written by different workers are pairwise disjoint (as long as the
\* call has not returned an error), and when the
\* call returns 0 they cover exactly the indices 0 .. L/5*4-1: every 5-byte
\* group is unpacked by exactly one worker.
C29_WorkersPartitionOutput ==
    (up.num_threads # 1 /\ ~(up.pc = "ret" /\ up.ret < 0)) =>
        /\ \A t, u \in Created : t # u =>
              \A r \in RangesOf(t), q \in RangesOf(u) : r.hi <= q.lo \/ q.hi <= r.lo
        /\ (up.pc = "ret" /\ up.ret = 0) =>
              /\ \A t \in Created : \A r \in RangesOf(t) :
                    0 <= r.lo /\ r.hi <= ExpectedPixels(raw_size)
              /\ TotalLength(UNION {RangesOf(t) : t \in Created}) = ExpectedPixels(raw_size)

\* ------------------------------------------------------------------------
\* Properties of the receiver's statistics (under SpecWire)
\* ------------------------------------------------------------------------
\* C30: stats.frames_received is incremented exactly once for each frame
\* whose header passed validation and whose payload was received
\* completely, whatever save_interval is and whether or not saving or
\* conversion succeeded, and never for a frame whose header or payload read
\* failed: it always equals the number of such frames.
C30_FramesCounted ==
    /\ [](/\ stats.frames_received = Cardinality(Processed)
          /\ rx.pc # "process" => Processed = 1..Len(rx.frames))
    /\ [][ stats' # stats =>
              /\ rx.pc = "process"
              /\ MagicOk(rx.header) /\ SizeOk(rx.header)
              /\ rx.received = rx.want /\ rx.want = IntOfU32(rx.header.size)
              /\ stats'.frames_received = stats.frames_received + 1 ]_vars
    /\ [][ (rx.pc = "process" /\ rx'.pc # "process") =>
              stats'.frames_received = stats.frames_received + 1 ]_vars
    /\ [][ Len(rx'.frames) # Len(rx.frames) =>
              /\ rx.stage = "payload" /\ rx.received = rx.want
              /\ rx'.pc = "process"
              /\ Len(rx'.frames) = Len(rx.frames) + 1 ]_vars

\* C30 witness: three frames were received with save_interval 2; saving the
\* first failed, the second was not due, the third was saved; all three are
\* counted, and the header read that failed after them is not
C30_Witness ==
    /\ config.save_interval = 2 /\ config.enable_save = 1
    /\ Len(rx.frames) = 3
    /\ rx.frames[1].saved = "open_failed"
    /\ rx.frames[2].saved = "skipped"
    /\ rx.frames[3].saved = "saved"
    /\ rx.pc = "done" /\ rx.end_reason = "recv" /\ rx.stage = "header"
    /\ stats.frames_received = 3

\* a frame whose conversion failed is counted too; the next frame's payload
\* read failed and is not
C30_WitnessConversion ==
    /\ config.enable_conversion = 1
    /\ Len(rx.frames) = 1
    /\ rx.frames[1].saved = "saved" /\ rx.frames[1].ret = -1
    /\ rx.pc = "done" /\ rx.end_reason = "recv" /\ rx.stage = "payload"
    /\ stats.frames_received = 1

\* ------------------------------------------------------------------------
\* The receiver under fair scheduling.  The kernel runs the receiver's
\* thread whenever it can take a step, and every recv() call returns:
\* connect_to_server sets SO_RCVTIMEO (RECV_TIMEOUT_SEC), so a recv() on a
\* silent connection fails with a timeout, and a recv() interrupted by the
\* signal handler fails with EINTR.  Nothing makes the peer send or close,
\* and nothing makes a signal arrive.
\* ------------------------------------------------------------------------
RxThread ==
    \/ RxLoop \/ RxRecvLoop \/ RxBadMagic \/ RxBadSize \/ RxAllocFail
    \/ RxStartPayload \/ RxProcess \/ RxReturn \/ RxMainExit
RecvReturns == RxRecv \/ RxRecvFail

WireFairness == WF_vars(RxThread) /\ WF_vars(RecvReturns)

SpecWireFair == SpecWire /\ WireFairness

\* ------------------------------------------------------------------------
\* Shutdown of the receiver (under SpecWireFair)
\* ------------------------------------------------------------------------
\* C31: after the receiver's signal handler has set running to 0,
\* receive_loop eventually returns, whether it is in a header read or in a
\* payload read, also when the peer sends nothing more and keeps the
\* connection open.
C31_ShutdownReturns ==
    (rx_running = 0) ~> (rx.pc \in {"returned", "exited"})

\* C31 witness: receive_loop has returned after a shutdown that found it in
\* a payload read with bytes still missing, the peer's connection still
\* open and nothing left to read
C31_Witness ==
    /\ rx_running = 0
    /\ rx.pc = "returned"
    /\ rx.stage = "payload" /\ rx.received < rx.want
    /\ Avail = 0 /\ ~PeerClosed

\* the same with the shutdown arriving during a header read
C31_WitnessHeader ==
    /\ rx_running = 0
    /\ rx.pc = "returned"
    /\ rx.stage = "header" /\ rx.received < rx.want
    /\ Avail = 0 /\ ~PeerClosed

\* ------------------------------------------------------------------------
\* The frame descriptor (under SpecProd)
\* ------------------------------------------------------------------------
\* the arguments of the send_frame call in progress, as a frame descriptor
CallFrame ==
    [data |-> sf.data, size |-> sf.size, frame_id |-> sf.frame_id,
     timestamp |-> sf.timestamp]

\* C32: every send_frame call made by the sender thread carries a data
\* pointer, size, frame_id and timestamp that one single publish of
\* capture_loop wrote together; while the call is in progress capture_loop
\* is not inside its publish section, and current_frame does not change.
C32_DescriptorConsistent ==
    /\ []((InSendFrame \/ snd.pc = "sf_ret") =>
             /\ CallFrame = handoff.pub
             /\ cap.pc \notin {"publish", "publish_id"})
    /\ [][InSendFrame => current_frame' = current_frame]_vars

\* C32 witness: a send_frame call is in progress with the descriptor of the
\* last publish while capture_loop, holding a later frame, waits for
\* frame_mutex to publish it
C32_Witness ==
    /\ snd.pc = "sf_chunk"
    /\ CallFrame = handoff.pub
    /\ cap.pc = "lock" /\ frame_mutex = "sender"
    /\ cap.timestamp > sf.timestamp
    /\ cap.frame_counter > sf.frame_id

\* C33: every frame the sender thread sends to a client was published by
\* capture_loop after that client was accepted: the descriptor of a
\* send_frame call comes from a publish made while the call's client was
\* already the accepted one, never from a publish made before (a frame left
\* in, or written into, current_frame around a disconnect).
C33_FramePublishedForClient ==
    (InSendFrame \/ snd.pc = "sf_ret") => handoff.pub_conn = sf.fd

\* C34: signal_handler always runs to completion.  It is never at its
\* pthread_mutex_lock(&frame_mutex) while the thread it interrupted owns
\* frame_mutex: that thread resumes only when the handler returns, so such
\* a handler waits for ever.
C34_HandlerCompletes ==
    ~(sig.pc = "lock" /\ frame_mutex = sig.on)

\* ------------------------------------------------------------------------
\* Termination of the producer (under SpecProdFair)
\* ------------------------------------------------------------------------
\* C35: whenever capture_loop has returned, for whatever reason (running
\* became 0, or select failed with an error other than EINTR), the process
\* eventually terminates without a further signal: the sender thread
\* exits, main's pthread_join returns and main runs to its end.
C35_ReturnTerminates ==
    (cap.pc = "join") ~> (snd.pc = "done" /\ cap.pc = "exited")

\* ------------------------------------------------------------------------
\* Progress of the hand-off (under SpecProdFair)
\* ------------------------------------------------------------------------
\* the publish with timestamp t and frame_id f is complete and its frame is
\* in the slot, not yet taken by a send_frame call
PublishedWaiting(t, f) ==
    /\ handoff.pub.timestamp = t /\ handoff.pub.frame_id = f
    /\ current_frame.data # NULL
    /\ t \notin handoff.sent
\* send_frame has written the header of a frame at least as recent
SentSince(t, f) ==
    /\ snd.pc \in {"sf_loop", "sf_chunk"}
    /\ sf.timestamp >= t /\ sf.frame_id >= f

\* C36: while the client stays connected and neither a shutdown nor a send
\* failure occurs, every publish of capture_loop is eventually followed by
\* the sender thread sending a frame whose frame_id is at least the
\* published one; the sender is never blocked in pthread_cond_wait,
\* unsignalled, while a published frame is in the slot.
C36_PublishIsSent ==
    /\ []((snd.pc = "cond_wait" /\ ~snd.woken /\ current_frame.data # NULL)
             => cap.pc = "publish_id")
    /\ \A t \in 1..MaxFills : \A f \in 0..(t - 1) :
          PublishedWaiting(t, f) ~>
             (SentSince(t, f) \/ SendFailed \/ running = 0 \/ client_connected = 0)

\* C36 witness: with one client connected throughout and no shutdown, the
\* second published frame is being sent after the first one was
C36_Witness ==
    /\ running = 1 /\ sig.pc = "idle"
    /\ client_connected = 1 /\ next_conn = 1
    /\ SentSince(2, 1)
    /\ handoff.sent = {1, 2}

\* C36 witness: a frame was published while the sender was blocked in
\* pthread_cond_wait, and the wake-up is pending
C36_WitnessWakeUp ==
    /\ running = 1 /\ sig.pc = "idle" /\ client_connected = 1
    /\ snd.pc = "cond_wait" /\ snd.woken
    /\ PublishedWaiting(handoff.last, handoff.pub.frame_id)

\* ------------------------------------------------------------------------
\* The result of send_frame (under SpecProd)
\* ------------------------------------------------------------------------
\* C37: send_frame returns success only after the header and all size
\* payload bytes have been written to the socket; a shutdown request that
\* arrives during the chunk loop is not reported as a successful send.
C37_SuccessMeansAllSent ==
    (snd.pc = "sf_ret" /\ sf.ret = 0) =>
        /\ sf.sent = sf.size
        /\ tx_log # <<>>
        /\ tx_log[Len(tx_log)].header = HeaderOfCall(sf)
        /\ StreamLen(tx_log[Len(tx_log)].payload) = sf.size

\* ------------------------------------------------------------------------
\* The byte counter (under SpecWire)
\* ------------------------------------------------------------------------
\* the sum of limb k of the size fields of the first n received frames
RECURSIVE SumOfLimbs(_, _)
SumOfLimbs(k, n) ==
    IF n = 0 THEN 0 ELSE rx.frames[n].header.size[k] + SumOfLimbs(k, n - 1)
\* the arithmetic sum s of the size fields of the first n received frames,
\* as <<s \div 2^16, s % 2^16>> with an unbounded first component
SumOfSizes(n) ==
    <<SumOfLimbs(1, n) + (SumOfLimbs(2, n) \div Limb), SumOfLimbs(2, n) % Limb>>

\* C38: at session end stats.bytes_received equals the arithmetic sum of the
\* size fields of all frames counted in stats.frames_received, for sessions
\* of any length: the counter does not wrap around.
C38_BytesReceivedIsSum ==
    rx.pc \in {"done", "returned", "exited"} =>
        /\ stats.frames_received = Len(rx.frames)
        /\ stats.bytes_received = SumOfSizes(Len(rx.frames))

\* ------------------------------------------------------------------------
\* The result of the unpacker (under SpecUnpack)
\* ------------------------------------------------------------------------
\* C39: whenever unpack_sbggr10_image returns success for an input of
\* length L, all L/5*4 output samples have been written, whatever
\* get_cpu_cores returned (0 and negative values included), and the number
\* of workers used is between 1 and 8.
C39_SuccessMeansUnpacked ==
    (up.pc = "ret" /\ up.ret = 0) =>
        /\ raw_size > 0 /\ raw_size % GROUP_BYTES = 0
        /\ WrittenCount(output_pixels) = ExpectedPixels(raw_size)
        /\ up.num_threads \in 1..MAX_UNPACK_THREADS

====
